---- MODULE Spec2Model ----
(***************************************************************************)
(* Model of the Hogan's Alley Google Ads tool layer                        *)
(* (google-ads-mcp/hogans_ads_mcp/tools/*.py).                             *)
(*                                                                         *)
(* Each tool handler is one action.  A handler builds a query or a list    *)
(* of mutation operations from its arguments, hands it to the platform     *)
(* stub, and renders the stub's answer (rows, results or a platform        *)
(* exception) as the returned text.  The stub's answer is an input of the  *)
(* action.                                                                 *)
(*                                                                         *)
(* Text is a sequence of chunks.  The separators "," and "|", the blank    *)
(* " " and the dash "-" are chunks of their own; every other chunk is a    *)
(* piece of text that holds none of them.  Status names are spelled one    *)
(* letter per chunk, so that str.upper() is modelled letter by letter.     *)
(*                                                                         *)
(* A Python float is an IEEE-754 double: a 53-bit significand m and an     *)
(* exponent e, value m * 2^e.  Significands are sequences of 7-bit limbs,  *)
(* least significant limb first, because they do not fit a 32-bit integer. *)
(***************************************************************************)
EXTENDS Integers, Sequences, FiniteSets, TLC

VARIABLES
  phase,     \* "idle": no invocation in progress; "returned": a handler has returned
  tool,      \* name of the handler that ran last ("none" before the first)
  args,      \* its arguments, a record
  requests,  \* the platform requests the handler issued, in order
  result,    \* what the handler returned (or the exception that escaped it)
  answers,   \* what the stub answered to each of the requests, in order
  registry,  \* the names the server's tools are mounted under
  config_files, \* the three places a google-ads.yaml is looked for
  amount,    \* codec: the dollar amount being converted
  micros,    \* codec: <<the micros computed from amount>>, <<>> before
  shown,     \* codec: <<the cents displayed for micros>>, <<>> before
  calls      \* the create_campaign invocations served concurrently, each with its locals

vars == <<phase, tool, args, requests, result, answers, registry, config_files,
          amount, micros, shown, calls>>

-----------------------------------------------------------------------------
(* Big naturals: sequences of 7-bit limbs, least significant limb first    *)

RECURSIVE Pow2(_)
Pow2(k) == IF k = 0 THEN 1 ELSE 2 * Pow2(k - 1)

RECURSIVE BigOfNat(_)
BigOfNat(n) == IF n = 0 THEN <<>> ELSE <<n % 128>> \o BigOfNat(n \div 128)

RECURSIVE NatOfBig(_)
NatOfBig(b) == IF b = <<>> THEN 0 ELSE b[1] + 128 * NatOfBig(Tail(b))

BigNorm(b) ==
  LET nz  == {i \in 1..Len(b) : b[i] # 0}
      top == IF nz = {} THEN 0 ELSE CHOOSE i \in nz : \A j \in nz : j <= i
  IN  SubSeq(b, 1, top)

RECURSIVE MulCarry(_, _, _)
MulCarry(b, c, carry) ==
  IF b = <<>> THEN BigOfNat(carry)
  ELSE LET t == b[1] * c + carry
       IN  <<t % 128>> \o MulCarry(Tail(b), c, t \div 128)

\* b * c for a natural c of at most 24 bits
BigMulSmall(b, c) == BigNorm(MulCarry(b, c, 0))

RECURSIVE DivLoop(_, _, _, _, _)
DivLoop(b, q, i, rem, acc) ==
  IF i = 0 THEN [quot |-> BigNorm(acc), rem |-> rem]
  ELSE LET t == 128 * rem + b[i]
       IN  DivLoop(b, q, i - 1, t % q, <<t \div q>> \o acc)

\* floor(b / q) and b mod q for a natural q of at most 24 bits
BigDivSmall(b, q) == DivLoop(b, q, Len(b), 0, <<>>)

RECURSIVE BigInc(_)
BigInc(b) ==
  IF b = <<>> THEN <<1>>
  ELSE IF b[1] < 127 THEN <<b[1] + 1>> \o Tail(b)
  ELSE <<0>> \o BigInc(Tail(b))

\* bit i of b, bit 0 the least significant
Bit(b, i) ==
  IF (i \div 7) + 1 > Len(b) THEN 0
  ELSE (b[(i \div 7) + 1] \div Pow2(i % 7)) % 2

\* number of significant bits of a normalised b
BitLen(b) ==
  IF b = <<>> THEN 0
  ELSE 7 * (Len(b) - 1)
       + (CHOOSE k \in 1..7 : Pow2(k - 1) <= b[Len(b)] /\ b[Len(b)] < Pow2(k))

ShiftLeft(b, k) ==
  IF b = <<>> THEN <<>>
  ELSE [i \in 1..(k \div 7) |-> 0] \o BigMulSmall(b, Pow2(k % 7))

ShiftRight(b, k) ==
  IF k \div 7 >= Len(b) THEN <<>>
  ELSE BigDivSmall(SubSeq(b, (k \div 7) + 1, Len(b)), Pow2(k % 7)).quot

\* (b + f) / 2^k rounded to the nearest integer, ties to even, where f is a
\* fraction below one unit of b that is non-zero exactly when sticky holds
RoundShiftRight(b, k, sticky) ==
  LET q     == ShiftRight(b, k)
      guard == IF k >= 1 THEN Bit(b, k - 1) ELSE 0
      low   == sticky \/ \E i \in 0..(k - 2) : Bit(b, i) = 1
      odd   == Bit(q, 0) = 1
      up    == guard = 1 /\ (low \/ odd)
  IN  IF up THEN BigInc(q) ELSE q

-----------------------------------------------------------------------------
(* IEEE-754 double arithmetic, on non-negative values                      *)

\* the double nearest to (b + f) * 2^e: 53 significant bits, ties to even
RoundToFloat(b, e, sticky) ==
  IF BitLen(b) <= 53 THEN [m |-> b, e |-> e]
  ELSE LET k == BitLen(b) - 53
       IN  [m |-> RoundShiftRight(b, k, sticky), e |-> e + k]

\* the double nearest to n / d: the value of a decimal literal, and of int / int
FromRatio(n, d) ==
  LET qr == BigDivSmall(ShiftLeft(BigOfNat(n), 80), d)
  IN  IF n = 0 THEN [m |-> <<>>, e |-> 0]
      ELSE RoundToFloat(qr.quot, -80, qr.rem # 0)

\* float * int, correctly rounded
FMulNat(f, c) == RoundToFloat(BigMulSmall(f.m, c), f.e, FALSE)

\* int(f): the integer part
FTrunc(f) ==
  IF f.e >= 0 THEN NatOfBig(ShiftLeft(f.m, f.e))
  ELSE NatOfBig(ShiftRight(f.m, -f.e))

\* the exact value of f rounded to two decimals, in cents: f"{f:.2f}" and round(f, 2)
FRoundCents(f) ==
  LET h == BigMulSmall(f.m, 100)
  IN  IF f.e >= 0 THEN NatOfBig(ShiftLeft(h, f.e))
      ELSE NatOfBig(RoundShiftRight(h, -f.e, FALSE))

RECURSIVE AddCarry(_, _, _)
AddCarry(a, b, carry) ==
  IF a = <<>> /\ b = <<>> THEN BigOfNat(carry)
  ELSE LET x == IF a = <<>> THEN 0 ELSE a[1]
           y == IF b = <<>> THEN 0 ELSE b[1]
           t == x + y + carry
       IN  <<t % 128>>
             \o AddCarry(IF a = <<>> THEN <<>> ELSE Tail(a),
                         IF b = <<>> THEN <<>> ELSE Tail(b), t \div 128)

BigAdd(a, b) == BigNorm(AddCarry(a, b, 0))

\* float + float, correctly rounded
FAdd(f, g) ==
  IF f.m = <<>> THEN g
  ELSE IF g.m = <<>> THEN f
  ELSE LET e == IF f.e < g.e THEN f.e ELSE g.e
       IN  RoundToFloat(BigAdd(ShiftLeft(f.m, f.e - e), ShiftLeft(g.m, g.e - e)),
                        e, FALSE)

FZero == [m |-> <<>>, e |-> 0]

\* f"{f:.2%}": the float is multiplied by 100 and shown with two decimals;
\* the value is in hundredths of a percent
FPercentDisplay(f) == FRoundCents(FMulNat(f, 100))

-----------------------------------------------------------------------------
(* Dollar amounts: the decimal numeral sign n / 10^k handed to a float     *)
(* parameter                                                               *)

RECURSIVE Pow10(_)
Pow10(k) == IF k = 0 THEN 1 ELSE 10 * Pow10(k - 1)

Dollars(neg, n, k) == [neg |-> neg, n |-> n, k |-> k]

FloatOf(d) == FromRatio(d.n, Pow10(d.k))

\* int(dollars * 1_000_000)
DollarsToMicros(d) ==
  LET t == FTrunc(FMulNat(FloatOf(d), 1000000))
  IN  IF d.neg THEN -t ELSE t

\* the micros divided by 100_000
MicrosToDisplayCentsWrongUnit(mu) == FRoundCents(FromRatio(mu, 100000))

\* f"{micros / 1_000_000:.2f}", as a number of cents
MicrosToDisplayCents(mu) == FRoundCents(FromRatio(mu, 1000000))

\* f"{dollars:.2f}" of a non-negative amount, as a number of cents
DollarsDisplayCents(d) == FRoundCents(FloatOf(d))

-----------------------------------------------------------------------------
(* Text                                                                    *)

LowerLetters ==
  <<"a","b","c","d","e","f","g","h","i","j","k","l","m",
    "n","o","p","q","r","s","t","u","v","w","x","y","z">>

UpperLetters ==
  <<"A","B","C","D","E","F","G","H","I","J","K","L","M",
    "N","O","P","Q","R","S","T","U","V","W","X","Y","Z">>

UpperChunk(c) ==
  IF \E i \in 1..26 : LowerLetters[i] = c
  THEN UpperLetters[CHOOSE i \in 1..26 : LowerLetters[i] = c]
  ELSE c

LowerChunk(c) ==
  IF \E i \in 1..26 : UpperLetters[i] = c
  THEN LowerLetters[CHOOSE i \in 1..26 : UpperLetters[i] = c]
  ELSE c

\* the text as it is, not upper-cased
UpperForgotten(t) == t

\* str.upper()
Upper(t) == [i \in 1..Len(t) |-> UpperChunk(t[i])]

\* str.strip()
Strip(t) ==
  LET nb == {i \in 1..Len(t) : t[i] # " "}
      lo == CHOOSE i \in nb : \A j \in nb : i <= j
      hi == CHOOSE i \in nb : \A j \in nb : j <= i
  IN  IF nb = {} THEN <<>> ELSE SubSeq(t, lo, hi)

RECURSIVE SplitLoop(_, _, _)
SplitLoop(t, sep, cur) ==
  IF t = <<>> THEN <<cur>>
  ELSE IF Head(t) = sep THEN <<cur>> \o SplitLoop(Tail(t), sep, <<>>)
  ELSE SplitLoop(Tail(t), sep, Append(cur, Head(t)))

\* str.split(sep)
Split(t, sep) == SplitLoop(t, sep, <<>>)

\* sep in t
Contains(t, sep) == \E i \in 1..Len(t) : t[i] = sep

\* An Optional[str] argument is <<>> when None and <<text>> otherwise;
\* it is truthy when it is a non-empty string.
None == <<>>
Some(t) == <<t>>
Truthy(o) == o # <<>> /\ o[1] # <<>>

ENABLED_ == <<"E","N","A","B","L","E","D">>
PAUSED_ == <<"P","A","U","S","E","D">>
REMOVED_ == <<"R","E","M","O","V","E","D">>

-----------------------------------------------------------------------------
(* The platform stub                                                       *)

\* ga_service.search(customer_id=..., query=...)
SearchRequest(customer_id, query) ==
  [kind |-> "search", customer_id |-> customer_id, query |-> query]

\* <service>.mutate_*(customer_id=..., operations=[...])
MutateRequest(service, customer_id, operations) ==
  [kind |-> "mutate", service |-> service, customer_id |-> customer_id,
   operations |-> operations]

\* resource paths composed by the client's path helpers
CampaignPath(customer_id, campaign_id) ==
  [path |-> "campaign", customer_id |-> customer_id, ids |-> <<campaign_id>>]

AdGroupPath(customer_id, ad_group_id) ==
  [path |-> "adGroup", customer_id |-> customer_id, ids |-> <<ad_group_id>>]

AdGroupAdPath(customer_id, ad_group_id, ad_id) ==
  [path |-> "adGroupAd", customer_id |-> customer_id, ids |-> <<ad_group_id, ad_id>>]

-----------------------------------------------------------------------------
(* Returned values                                                         *)

Returned(class, text) == [class |-> class, text |-> text]

\* an exception other than GoogleAdsException leaves the handler
Raised(exception) == [class |-> "exception", text |-> [exception |-> exception]]

\* "\n".join(lines)
RECURSIVE JoinLines(_)
JoinLines(lines) ==
  IF lines = <<>> THEN <<>>
  ELSE IF Len(lines) = 1 THEN Head(lines)
  ELSE Head(lines) \o <<"\n">> \o JoinLines(Tail(lines))

\* the failure messages rendered last first
FormatErrorReversed(ex) ==
  LET n == Len(ex.errors)
      messages == [i \in 1..n |-> <<"Error: ", ex.errors[n + 1 - i]>>]
  IN  Returned("platform_error",
               <<"Google Ads API Error:", "\n">> \o JoinLines(messages))

\* campaigns.py: _format_error(ex)
FormatError(ex) ==
  LET messages == [i \in 1..Len(ex.errors) |-> <<"Error: ", ex.errors[i]>>]
  IN  Returned("platform_error",
               <<"Google Ads API Error:", "\n">> \o JoinLines(messages))

\* reporting.py: _format_error(ex)
FormatErrorReporting(ex) ==
  LET messages == [i \in 1..Len(ex.errors) |-> <<"Error: ", ex.errors[i]>>]
  IN  Returned("platform_error",
               <<"Google Ads API Error:", "\n">> \o JoinLines(messages))

\* keywords.py: _format_error(ex)
FormatErrorKeywords(ex) ==
  LET messages == [i \in 1..Len(ex.errors) |-> <<"Error: ", ex.errors[i]>>]
  IN  Returned("platform_error",
               <<"Google Ads API Error:", "\n">> \o JoinLines(messages))

\* ads.py: _format_error(ex)
FormatErrorAds(ex) ==
  LET messages == [i \in 1..Len(ex.errors) |-> <<"Error: ", ex.errors[i]>>]
  IN  Returned("platform_error",
               <<"Google Ads API Error:", "\n">> \o JoinLines(messages))

-----------------------------------------------------------------------------
(* Inputs: the argument values and the stub's answers the model draws from *)

MaxRows == 2

CustomerIds == {<<"1234567890">>, <<"123", "-", "456", "-", "7890">>}

CampaignIds == {<<"111">>, <<"1", " ", "OR", " ", "campaign.id", " ", ">", " ", "0">>}

AdGroupIds == {<<"222">>}

AdIds == {<<"333">>}

\* every spelling of a name in upper and lower case letters
CaseVariants(name) ==
  {[i \in 1..Len(name) |-> IF i \in low THEN LowerChunk(name[i]) ELSE name[i]] :
     low \in SUBSET (1..Len(name))}

OtherStatusTexts ==
  {<<>>, <<"P","A","U","S","E">>, <<" ","P","A","U","S","E","D">>,
   <<"p","a","u","s","e","d"," ">>, <<"E","N","A","B","L","E">>,
   <<"D","E","L","E","T","E","D">>, <<"U","N","K","N","O","W","N">>,
   <<"P","A","U","S","E","D","!">>, <<"1">>}

StatusTexts ==
  CaseVariants(ENABLED_) \cup CaseVariants(PAUSED_) \cup CaseVariants(REMOVED_)
    \cup OtherStatusTexts

\* dollar amounts handed to the tools
AmountInputs ==
  {Dollars(FALSE, 5000, 2), Dollars(FALSE, 201, 2), Dollars(FALSE, 0, 2),
   Dollars(FALSE, 2, 0), Dollars(FALSE, 4145001, 6), Dollars(FALSE, 1250001, 7),
   Dollars(TRUE, 500, 2), Dollars(TRUE, 5, 7)}

DefaultCpcBid == Dollars(FALSE, 200, 2)

\* an optional float argument: omitted, or one of the amounts
OptionalAmounts == {None} \cup {Some(d) : d \in AmountInputs}

\* the bids handed to add_keywords
BidInputs ==
  {None, Some(Dollars(FALSE, 0, 0)), Some(Dollars(FALSE, 201, 2)),
   Some(Dollars(TRUE, 150, 2)), Some(Dollars(FALSE, 5, 7))}

Names == {<<"Parkas">>}

SEARCH_ == <<"S","E","A","R","C","H">>
DISPLAY_ == <<"D","I","S","P","L","A","Y">>
DISCOVERY_ == <<"D","I","S","C","O","V","E","R","Y">>

ChannelTexts ==
  {SEARCH_, <<"s","e","a","r","c","h">>, <<"D","i","s","p","l","a","y">>,
   DISCOVERY_, <<"V","I","D","E","O">>, <<>>}

EXACT_ == <<"E","X","A","C","T">>
PHRASE_ == <<"P","H","R","A","S","E">>
BROAD_ == <<"B","R","O","A","D">>

MatchTypeTexts == {EXACT_, <<"p","h","r","a","s","e">>, BROAD_, <<"A","N","Y">>}

OptionalDates == {None, Some(<<>>), Some(<<"2024", "-", "01", "-", "31">>)}

MaxListLen == 3

\* every text of at most MaxListLen chunks over two items, a blank and the separator
ListTexts(sep) ==
  UNION {[1..n -> {"a", "b", " ", sep}] : n \in 0..MaxListLen}
    \cup {<<"a", sep, " ", "b", " ", sep, "c">>}

Urls == {<<"https://hogans.netlify.app/shop.html">>}

OptionalPaths == {None, Some(<<"parkas">>)}

LAST_7_DAYS == <<"LAST_7_DAYS">>
LAST_30_DAYS == <<"LAST_30_DAYS">>
THIS_MONTH == <<"THIS_MONTH">>
LAST_MONTH == <<"LAST_MONTH">>

\* the relative ranges the docstrings name
DateRangeTokens == {LAST_7_DAYS, LAST_30_DAYS, THIS_MONTH, LAST_MONTH}

DateRangeTexts ==
  DateRangeTokens \cup
  {<<"2024-01-01", ",", "2024-01-31">>,
   <<" ", "2024-01-01", " ", ",", " ", "2024-01-31", " ">>,
   <<"2024-01-31", ",", "2024-01-01">>,
   <<"2024-01-01", ",", "2024-01-01">>,
   <<"foo", ",", "bar">>,
   <<"2024-01-01", ",", "2024-01-31", ",", "2024-02-01">>,
   <<"2024-01-01", ",">>,
   <<",">>,
   <<",", ",">>,
   <<"YESTERDAY">>,
   <<"last", "-", "30", "-", "days">>,
   <<"last_30_days">>,
   <<"LAST_30_DAYS", " ", "OR", " ", "segments.date", " ", ">", " ", "'2000-01-01'">>,
   <<"2024-01-01">>,
   <<>>}

OptionalCampaignIds == {None, Some(<<>>)} \cup {Some(id) : id \in CampaignIds}

OptionalStatusFilters ==
  {None, Some(<<>>), Some(ENABLED_), Some(<<"p","a","u","s","e","d">>),
   Some(<<"B","O","G","U","S">>),
   Some(<<"X", "'", " ", "OR", " ", "campaign.id", " ", ">", " ", "'", "0">>)}

MinImpressions == {10, 0}

\* the rows a search can return
RowValues ==
  {[id |-> 1, campaign_budget |-> <<"customers/1/campaignBudgets/7">>,
    amount_micros |-> 50000000, cost_micros |-> 2009999, average_cpc |-> 669999,
    clicks |-> 3, impressions |-> 100, conversions |-> 1],
   [id |-> 2, campaign_budget |-> <<>>,
    amount_micros |-> 0, cost_micros |-> 0, average_cpc |-> 0,
    clicks |-> 0, impressions |-> 0, conversions |-> 0],
   [id |-> 3, campaign_budget |-> <<"customers/1/campaignBudgets/9">>,
    amount_micros |-> 125000, cost_micros |-> 4145000, average_cpc |-> 829000,
    clicks |-> 5, impressions |-> 50, conversions |-> 2]}

RowSeqs == UNION {[1..n -> RowValues] : n \in 0..MaxRows}

\* a GoogleAdsException and its failure messages
ErrorAnswers ==
  {[kind |-> "error", errors |-> e] : e \in {<<"m1">>, <<"m1", "m2">>, <<"m2", "m1">>}}

SearchAnswers == {[kind |-> "rows", rows |-> r] : r \in RowSeqs} \cup ErrorAnswers

\* the LIMIT of each capped report's query
KeywordLimit == 50
SearchTermLimit == 50
GeoLimit == 20

\* n rows
ManyRows(n) ==
  [i \in 1..n |->
     [id |-> i, campaign_budget |-> <<>>, amount_micros |-> 0,
      cost_micros |-> 10000 * i, average_cpc |-> 10000, clicks |-> i,
      impressions |-> 10 * i, conversions |-> 0]]

\* the answers to a query with a LIMIT: those of any search, as many rows as the
\* limit, and the answer of a platform that returns one row more
AnswersAround(limit) ==
  SearchAnswers \cup {[kind |-> "rows", rows |-> ManyRows(n)] : n \in {limit, limit + 1}}

\* the results of a mutate call: resource names
MutateAnswers ==
  {[kind |-> "results", results |-> r] : r \in {<<>>, <<"res/1">>, <<"res/1", "res/2">>}}
    \cup ErrorAnswers

-----------------------------------------------------------------------------
(* campaigns.py                                                            *)

StatusMapKeys == {ENABLED_, PAUSED_, REMOVED_}

\* a mask that also names an attribute the update does not assign
StatusMaskPathsTooBroad == <<"status", "name">>

StatusMaskPaths == <<"status">>

BudgetMaskPaths == <<"amount_micros">>

\* campaign_operation.update with its update_mask
CampaignStatusOperation(customer_id, campaign_id, status) ==
  [op |-> "update", type |-> "Campaign",
   fields |-> [resource_name |-> CampaignPath(customer_id, campaign_id),
               status |-> status],
   mask |-> StatusMaskPaths]

\* budget_operation.update with its update_mask
BudgetUpdateOperation(budget_resource, amount_micros) ==
  [op |-> "update", type |-> "CampaignBudget",
   fields |-> [resource_name |-> budget_resource,
               amount_micros |-> amount_micros],
   mask |-> BudgetMaskPaths]

\* f"{dollars:.2f}"
DisplayDollars(d) == [neg |-> d.neg, cents |-> DollarsDisplayCents(d)]

Invoke(name, a, reqs, res) ==
  /\ phase = "idle"
  /\ phase' = "returned"
  /\ tool' = name
  /\ args' = a
  /\ requests' = reqs
  /\ result' = res
  /\ UNCHANGED <<registry, config_files, amount, micros, shown, calls>>

\* the handler with the platform exception caught and dropped
update_campaign_status_swallowing(customer_id, campaign_id, new_status, answer) ==
  LET new_status_upper == Upper(new_status)
      operation == CampaignStatusOperation(customer_id, campaign_id, new_status_upper)
      a == [customer_id |-> customer_id, campaign_id |-> campaign_id,
            new_status |-> new_status]
  IN  IF new_status_upper \notin StatusMapKeys
      THEN Invoke("update_campaign_status", a, <<>>,
                  Returned("invalid", [what |-> "status", value |-> new_status]))
      ELSE Invoke("update_campaign_status", a,
                  <<MutateRequest("CampaignService", customer_id, <<operation>>)>>,
                  Returned("ok", [what |-> "campaign_status_updated",
                                  id |-> campaign_id,
                                  status |-> new_status_upper]))

update_campaign_status(customer_id, campaign_id, new_status, answer) ==
  LET new_status_upper == Upper(new_status)
      operation == CampaignStatusOperation(customer_id, campaign_id, new_status_upper)
      a == [customer_id |-> customer_id, campaign_id |-> campaign_id,
            new_status |-> new_status]
  IN  IF new_status_upper \notin StatusMapKeys
      THEN Invoke("update_campaign_status", a, <<>>,
                  Returned("invalid", [what |-> "status", value |-> new_status]))
      ELSE Invoke("update_campaign_status", a,
                  <<MutateRequest("CampaignService", customer_id, <<operation>>)>>,
                  IF answer.kind = "error" THEN FormatError(answer)
                  ELSE Returned("ok", [what |-> "campaign_status_updated",
                                       id |-> campaign_id,
                                       status |-> new_status_upper]))

BudgetQuery(campaign_id) ==
  <<[kw |-> "SELECT", lhs |-> "", op |-> "", rhs |-> <<"campaign.campaign_budget">>],
    [kw |-> "FROM", lhs |-> "", op |-> "", rhs |-> <<"campaign">>],
    [kw |-> "WHERE", lhs |-> "campaign.id", op |-> "=", rhs |-> campaign_id]>>

\* the budget taken from the last row of the lookup (the loop without its break)
update_campaign_budget_last_row(customer_id, campaign_id, new_daily_budget_dollars, found, answer) ==
  LET a == [customer_id |-> customer_id, campaign_id |-> campaign_id,
            new_daily_budget_dollars |-> new_daily_budget_dollars]
      search == SearchRequest(customer_id, BudgetQuery(campaign_id))
      budget_resource ==
        IF found.rows = <<>> THEN <<>> ELSE found.rows[Len(found.rows)].campaign_budget
      operation ==
        BudgetUpdateOperation(budget_resource,
                              DollarsToMicros(new_daily_budget_dollars))
  IN  IF found.kind = "error"
      THEN Invoke("update_campaign_budget", a, <<search>>, FormatError(found))
      ELSE IF budget_resource = <<>>
      THEN Invoke("update_campaign_budget", a, <<search>>,
                  Returned("not_found", [what |-> "campaign", id |-> campaign_id]))
      ELSE Invoke("update_campaign_budget", a,
                  <<search,
                    MutateRequest("CampaignBudgetService", customer_id, <<operation>>)>>,
                  IF answer.kind = "error" THEN FormatError(answer)
                  ELSE Returned("ok", [what |-> "campaign_budget_updated",
                                       id |-> campaign_id,
                                       budget |-> DisplayDollars(new_daily_budget_dollars)]))

update_campaign_budget(customer_id, campaign_id, new_daily_budget_dollars, found, answer) ==
  LET a == [customer_id |-> customer_id, campaign_id |-> campaign_id,
            new_daily_budget_dollars |-> new_daily_budget_dollars]
      search == SearchRequest(customer_id, BudgetQuery(campaign_id))
      budget_resource ==
        IF found.rows = <<>> THEN <<>> ELSE found.rows[1].campaign_budget
      operation ==
        BudgetUpdateOperation(budget_resource,
                              DollarsToMicros(new_daily_budget_dollars))
  IN  IF found.kind = "error"
      THEN Invoke("update_campaign_budget", a, <<search>>, FormatError(found))
      ELSE IF budget_resource = <<>>
      THEN Invoke("update_campaign_budget", a, <<search>>,
                  Returned("not_found", [what |-> "campaign", id |-> campaign_id]))
      ELSE Invoke("update_campaign_budget", a,
                  <<search,
                    MutateRequest("CampaignBudgetService", customer_id, <<operation>>)>>,
                  IF answer.kind = "error" THEN FormatError(answer)
                  ELSE Returned("ok", [what |-> "campaign_budget_updated",
                                       id |-> campaign_id,
                                       budget |-> DisplayDollars(new_daily_budget_dollars)]))

\* a campaign that starts serving as soon as it is created
InitialCampaignStatusEnabled == ENABLED_

InitialCampaignStatus == PAUSED_

ChannelMapKeys == {SEARCH_, DISPLAY_, DISCOVERY_}

\* channel_map.get(channel_type.upper(), channel_enum.SEARCH)
\* the lookup in channel_map without .upper()
ChannelOfExactCase(channel_type) ==
  IF channel_type \in ChannelMapKeys THEN channel_type ELSE SEARCH_

ChannelOf(channel_type) ==
  IF Upper(channel_type) \in ChannelMapKeys THEN Upper(channel_type) ELSE SEARCH_

\* str.replace("-", "")
RemoveDashes(t) == SelectSeq(t, LAMBDA c : c # "-")

NoFields == [k \in {} |-> 0]

\* the attributes assigned only when the condition holds
When(cond, fields) == IF cond THEN fields ELSE NoFields

\* budget_operation.create
BudgetCreateOperation(name, daily_budget_dollars) ==
  [op |-> "create", type |-> "CampaignBudget",
   fields |-> [name |-> name \o <<" Budget">>,
               amount_micros |-> DollarsToMicros(daily_budget_dollars),
               delivery_method |-> "STANDARD"],
   mask |-> <<>>]

\* the campaign given the name of the budget in place of the resource returned
CampaignCreateOperationBudgetByName(name, budget_resource, channel_type, start_date, end_date) ==
  [op |-> "create", type |-> "Campaign",
   fields |-> [name |-> name,
               campaign_budget |-> name \o <<" Budget">>,
               status |-> InitialCampaignStatus,
               advertising_channel_type |-> ChannelOf(channel_type),
               target_spend_micros |-> 0]
              @@ When(Truthy(start_date), [start_date |-> RemoveDashes(start_date[1])])
              @@ When(Truthy(end_date), [end_date |-> RemoveDashes(end_date[1])]),
   mask |-> <<>>]

\* campaign_operation.create
CampaignCreateOperation(name, budget_resource, channel_type, start_date, end_date) ==
  [op |-> "create", type |-> "Campaign",
   fields |-> [name |-> name,
               campaign_budget |-> budget_resource,
               status |-> InitialCampaignStatus,
               advertising_channel_type |-> ChannelOf(channel_type),
               target_spend_micros |-> 0]
              @@ When(Truthy(start_date), [start_date |-> RemoveDashes(start_date[1])])
              @@ When(Truthy(end_date), [end_date |-> RemoveDashes(end_date[1])]),
   mask |-> <<>>]

\* value or 'Not set'
OrNotSet(o) == IF Truthy(o) THEN o[1] ELSE <<"Not set">>

create_campaign(customer_id, name, daily_budget_dollars, channel_type, start_date, end_date, budget_answer, answer) ==
  LET a == [customer_id |-> customer_id, name |-> name,
            daily_budget_dollars |-> daily_budget_dollars,
            channel_type |-> channel_type,
            start_date |-> start_date, end_date |-> end_date]
      budget_request ==
        MutateRequest("CampaignBudgetService", customer_id,
                      <<BudgetCreateOperation(name, daily_budget_dollars)>>)
      budget_resource == budget_answer.results[1]
      campaign_request ==
        MutateRequest("CampaignService", customer_id,
                      <<CampaignCreateOperation(name, budget_resource, channel_type,
                                                start_date, end_date)>>)
  IN  IF budget_answer.kind = "error"
      THEN Invoke("create_campaign", a, <<budget_request>>, FormatError(budget_answer))
      ELSE IF budget_answer.results = <<>>
      THEN Invoke("create_campaign", a, <<budget_request>>, Raised("IndexError"))
      ELSE Invoke("create_campaign", a, <<budget_request, campaign_request>>,
                  IF answer.kind = "error" THEN FormatError(answer)
                  ELSE IF answer.results = <<>> THEN Raised("IndexError")
                  ELSE Returned("ok", [what |-> "campaign_created",
                                       name |-> name,
                                       resource |-> answer.results[1],
                                       channel |-> channel_type,
                                       budget |-> DisplayDollars(daily_budget_dollars),
                                       status |-> PAUSED_,
                                       start |-> OrNotSet(start_date),
                                       end |-> OrNotSet(end_date)]))

-----------------------------------------------------------------------------
(* ads.py                                                                  *)

\* operation.create of create_ad_group
AdGroupCreateOperation(customer_id, campaign_id, name, cpc_bid_dollars) ==
  [op |-> "create", type |-> "AdGroup",
   fields |-> [name |-> name,
               campaign |-> CampaignPath(customer_id, campaign_id),
               status |-> ENABLED_,
               type_ |-> "SEARCH_STANDARD",
               cpc_bid_micros |-> DollarsToMicros(cpc_bid_dollars)],
   mask |-> <<>>]

create_ad_group(customer_id, campaign_id, name, cpc_bid, answer) ==
  LET cpc_bid_dollars == IF cpc_bid = None THEN DefaultCpcBid ELSE cpc_bid[1]
      a == [customer_id |-> customer_id, campaign_id |-> campaign_id,
            name |-> name, cpc_bid_dollars |-> cpc_bid]
      request ==
        MutateRequest("AdGroupService", customer_id,
                      <<AdGroupCreateOperation(customer_id, campaign_id, name,
                                               cpc_bid_dollars)>>)
  IN  Invoke("create_ad_group", a, <<request>>,
             IF answer.kind = "error" THEN FormatErrorAds(answer)
             ELSE IF answer.results = <<>> THEN Raised("IndexError")
             ELSE Returned("ok", [what |-> "ad_group_created",
                                  name |-> name,
                                  resource |-> answer.results[1],
                                  bid |-> DisplayDollars(cpc_bid_dollars),
                                  status |-> ENABLED_]))

\* [x.strip() for x in text.split(sep)]
ParseList(text, sep) ==
  LET parts == Split(text, sep)
  IN  [i \in 1..Len(parts) |-> Strip(parts[i])]

\* one AdTextAsset per item
TextAssets(items) == [i \in 1..Len(items) |-> [text |-> items[i]]]

\* operation.create of create_responsive_search_ad
AdCreateOperation(customer_id, ad_group_id, headline_list, description_list, final_url, path1, path2) ==
  [op |-> "create", type |-> "AdGroupAd",
   fields |-> [ad_group |-> AdGroupPath(customer_id, ad_group_id),
               status |-> ENABLED_,
               final_urls |-> <<final_url>>,
               headlines |-> TextAssets(headline_list),
               descriptions |-> TextAssets(description_list)]
              @@ When(Truthy(path1), [path1 |-> path1[1]])
              @@ When(Truthy(path2), [path2 |-> path2[1]]),
   mask |-> <<>>]

create_responsive_search_ad(customer_id, ad_group_id, headlines, descriptions, final_url, path1, path2, answer) ==
  LET a == [customer_id |-> customer_id, ad_group_id |-> ad_group_id,
            headlines |-> headlines, descriptions |-> descriptions,
            final_url |-> final_url, path1 |-> path1, path2 |-> path2]
      headline_list == ParseList(headlines, "|")
      description_list == ParseList(descriptions, "|")
      request ==
        MutateRequest("AdGroupAdService", customer_id,
                      <<AdCreateOperation(customer_id, ad_group_id, headline_list,
                                          description_list, final_url, path1, path2)>>)
  IN  Invoke("create_responsive_search_ad", a, <<request>>,
             IF answer.kind = "error" THEN FormatErrorAds(answer)
             ELSE IF answer.results = <<>> THEN Raised("IndexError")
             ELSE Returned("ok", [what |-> "ad_created",
                                  resource |-> answer.results[1],
                                  headlines |-> headline_list,
                                  descriptions |-> description_list,
                                  url |-> final_url]))

\* operation.update of update_ad_status with its update_mask
AdStatusOperation(customer_id, ad_group_id, ad_id, status) ==
  [op |-> "update", type |-> "AdGroupAd",
   fields |-> [resource_name |-> AdGroupAdPath(customer_id, ad_group_id, ad_id),
               status |-> status],
   mask |-> StatusMaskPaths]

update_ad_status(customer_id, ad_group_id, ad_id, new_status, answer) ==
  LET new_status_upper == Upper(new_status)
      operation == AdStatusOperation(customer_id, ad_group_id, ad_id, new_status_upper)
      a == [customer_id |-> customer_id, ad_group_id |-> ad_group_id,
            ad_id |-> ad_id, new_status |-> new_status]
  IN  IF new_status_upper \notin StatusMapKeys
      THEN Invoke("update_ad_status", a, <<>>,
                  Returned("invalid", [what |-> "status", value |-> new_status]))
      ELSE Invoke("update_ad_status", a,
                  <<MutateRequest("AdGroupAdService", customer_id, <<operation>>)>>,
                  IF answer.kind = "error" THEN FormatErrorAds(answer)
                  ELSE Returned("ok", [what |-> "ad_status_updated",
                                       id |-> ad_id,
                                       status |-> new_status_upper]))

-----------------------------------------------------------------------------
(* keywords.py                                                             *)

MatchMapKeys == {EXACT_, PHRASE_, BROAD_}

\* if cpc_bid_dollars: a float is truthy when it is not zero
AmountTruthy(cpc_bid) == cpc_bid # None /\ cpc_bid[1].n # 0

\* the bid set whenever one is supplied ("is not None" in place of truthiness)
KeywordCreateOperationBidSupplied(customer_id, ad_group_id, keyword_text, match_type, cpc_bid) ==
  [op |-> "create", type |-> "AdGroupCriterion",
   fields |-> [ad_group |-> AdGroupPath(customer_id, ad_group_id),
               keyword_text |-> keyword_text,
               keyword_match_type |-> match_type,
               status |-> ENABLED_]
              @@ When(cpc_bid # None,
                      [cpc_bid_micros |-> DollarsToMicros(cpc_bid[1])]),
   mask |-> <<>>]

\* operation.create of add_keywords
KeywordCreateOperation(customer_id, ad_group_id, keyword_text, match_type, cpc_bid) ==
  [op |-> "create", type |-> "AdGroupCriterion",
   fields |-> [ad_group |-> AdGroupPath(customer_id, ad_group_id),
               keyword_text |-> keyword_text,
               keyword_match_type |-> match_type,
               status |-> ENABLED_]
              @@ When(AmountTruthy(cpc_bid),
                      [cpc_bid_micros |-> DollarsToMicros(cpc_bid[1])]),
   mask |-> <<>>]

add_keywords(customer_id, ad_group_id, keywords, match_type, cpc_bid, answer) ==
  LET a == [customer_id |-> customer_id, ad_group_id |-> ad_group_id,
            keywords |-> keywords, match_type |-> match_type,
            cpc_bid_dollars |-> cpc_bid]
      match_type_upper == Upper(match_type)
      keyword_list == ParseList(keywords, ",")
      operations ==
        [i \in 1..Len(keyword_list) |->
           KeywordCreateOperation(customer_id, ad_group_id, keyword_list[i],
                                  match_type_upper, cpc_bid)]
  IN  IF match_type_upper \notin MatchMapKeys
      THEN Invoke("add_keywords", a, <<>>,
                  Returned("invalid", [what |-> "match type", value |-> match_type]))
      ELSE Invoke("add_keywords", a,
                  <<MutateRequest("AdGroupCriterionService", customer_id, operations)>>,
                  IF answer.kind = "error" THEN FormatErrorKeywords(answer)
                  ELSE Returned("ok", [what |-> "keywords_added",
                                       added |-> Len(answer.results),
                                       id |-> ad_group_id,
                                       match_type |-> match_type_upper,
                                       keywords |-> keyword_list]))

\* operation.create of add_negative_keywords
NegativeKeywordCreateOperation(customer_id, campaign_id, keyword_text) ==
  [op |-> "create", type |-> "CampaignCriterion",
   fields |-> [campaign |-> CampaignPath(customer_id, campaign_id),
               negative |-> TRUE,
               keyword_text |-> keyword_text,
               keyword_match_type |-> BROAD_],
   mask |-> <<>>]

\* operations = [operation] in the loop instead of operations.append(operation):
\* only the last keyword is sent
add_negative_keywords_last_only(customer_id, campaign_id, keywords, answer) ==
  LET a == [customer_id |-> customer_id, campaign_id |-> campaign_id,
            keywords |-> keywords]
      keyword_list == ParseList(keywords, ",")
      operations ==
        <<NegativeKeywordCreateOperation(customer_id, campaign_id,
                                         keyword_list[Len(keyword_list)])>>
  IN  Invoke("add_negative_keywords", a,
             <<MutateRequest("CampaignCriterionService", customer_id, operations)>>,
             IF answer.kind = "error" THEN FormatErrorKeywords(answer)
             ELSE Returned("ok", [what |-> "negative_keywords_added",
                                  added |-> Len(answer.results),
                                  id |-> campaign_id,
                                  keywords |-> keyword_list]))

add_negative_keywords(customer_id, campaign_id, keywords, answer) ==
  LET a == [customer_id |-> customer_id, campaign_id |-> campaign_id,
            keywords |-> keywords]
      keyword_list == ParseList(keywords, ",")
      operations ==
        [i \in 1..Len(keyword_list) |->
           NegativeKeywordCreateOperation(customer_id, campaign_id, keyword_list[i])]
  IN  Invoke("add_negative_keywords", a,
             <<MutateRequest("CampaignCriterionService", customer_id, operations)>>,
             IF answer.kind = "error" THEN FormatErrorKeywords(answer)
             ELSE Returned("ok", [what |-> "negative_keywords_added",
                                  added |-> Len(answer.results),
                                  id |-> campaign_id,
                                  keywords |-> keyword_list]))

-----------------------------------------------------------------------------
(* Queries: the clauses of the query text in the order they are written;   *)
(* rhs is the text placed after the operator, quotes included              *)

Clause(kw, lhs, op, rhs) == [kw |-> kw, lhs |-> lhs, op |-> op, rhs |-> rhs]

Select(fields) == Clause("SELECT", "", "", <<fields>>)
From(source) == Clause("FROM", "", "", <<source>>)
OrderBy(ordering) == Clause("ORDER BY", "", "", <<ordering>>)
Limit(n) == Clause("LIMIT", "", "", <<ToString(n)>>)

Quote(t) == <<"'">> \o t \o <<"'">>

\* micros / 1_000_000 shown with two decimals
ShowMicros(mu) == MicrosToDisplayCents(mu)

\* the micros of a row as a float of dollars
MicrosAsDollars(mu) == FromRatio(mu, 1000000)

\* total = 0; for x in values: total += x, on floats
RECURSIVE SumFloat(_, _)
SumFloat(values, total) ==
  IF values = <<>> THEN total
  ELSE SumFloat(Tail(values), FAdd(total, Head(values)))

\* the same on integers
RECURSIVE SumNat(_)
SumNat(values) ==
  IF values = <<>> THEN 0 ELSE Head(values) + SumNat(Tail(values))

RowMetrics(row) ==
  [row |-> row.id, impressions |-> row.impressions, clicks |-> row.clicks,
   cost |-> ShowMicros(row.cost_micros), conversions |-> row.conversions]

-----------------------------------------------------------------------------
(* campaigns.py: queries                                                   *)

\* the status predicate appended with AND, as in list_ads
ListCampaignsQueryWithAnd(status_filter) ==
  <<Select("list_campaigns"), From("campaign")>>
    \o (IF Truthy(status_filter)
        THEN <<Clause("AND", "campaign.status", "=", Quote(status_filter[1]))>>
        ELSE <<>>)
    \o <<OrderBy("campaign.name")>>

ListCampaignsQuery(status_filter) ==
  <<Select("list_campaigns"), From("campaign")>>
    \o (IF Truthy(status_filter)
        THEN <<Clause("WHERE", "campaign.status", "=", Quote(status_filter[1]))>>
        ELSE <<>>)
    \o <<OrderBy("campaign.name")>>

CampaignBlock(row) ==
  [row |-> row.id, budget |-> ShowMicros(row.amount_micros)]

list_campaigns(customer_id, status_filter, found) ==
  LET a == [customer_id |-> customer_id, status_filter |-> status_filter]
      search == SearchRequest(customer_id, ListCampaignsQuery(status_filter))
  IN  Invoke("list_campaigns", a, <<search>>,
             IF found.kind = "error" THEN FormatError(found)
             ELSE IF found.rows = <<>>
             THEN Returned("empty", [what |-> "campaigns"])
             ELSE Returned("ok", [what |-> "campaigns",
                                  count |-> Len(found.rows),
                                  blocks |-> [i \in 1..Len(found.rows) |-> CampaignBlock(found.rows[i])]]))

GetCampaignQuery(campaign_id) ==
  <<Select("get_campaign"), From("campaign"),
    Clause("WHERE", "campaign.id", "=", campaign_id)>>

CampaignDetail(row) ==
  [row |-> row.id, budget |-> ShowMicros(row.amount_micros),
   impressions |-> row.impressions, clicks |-> row.clicks,
   avg_cpc |-> ShowMicros(row.average_cpc),
   cost |-> ShowMicros(row.cost_micros), conversions |-> row.conversions]

get_campaign(customer_id, campaign_id, found) ==
  LET a == [customer_id |-> customer_id, campaign_id |-> campaign_id]
      search == SearchRequest(customer_id, GetCampaignQuery(campaign_id))
  IN  Invoke("get_campaign", a, <<search>>,
             IF found.kind = "error" THEN FormatError(found)
             ELSE IF found.rows = <<>>
             THEN Returned("not_found", [what |-> "campaign", id |-> campaign_id])
             ELSE Returned("ok", [what |-> "campaign",
                                  blocks |-> <<CampaignDetail(found.rows[1])>>]))

-----------------------------------------------------------------------------
(* ads.py and keywords.py: queries                                         *)

ListAdsQuery(campaign_id, status_filter) ==
  <<Select("list_ads"), From("ad_group_ad"),
    Clause("WHERE", "campaign.id", "=", campaign_id)>>
    \o (IF Truthy(status_filter)
        THEN <<Clause("AND", "ad_group_ad.status", "=", Quote(status_filter[1]))>>
        ELSE <<>>)
    \o <<OrderBy("metrics.impressions DESC")>>

list_ads(customer_id, campaign_id, status_filter, found) ==
  LET a == [customer_id |-> customer_id, campaign_id |-> campaign_id,
            status_filter |-> status_filter]
      search == SearchRequest(customer_id, ListAdsQuery(campaign_id, status_filter))
  IN  Invoke("list_ads", a, <<search>>,
             IF found.kind = "error" THEN FormatErrorAds(found)
             ELSE IF found.rows = <<>>
             THEN Returned("empty", [what |-> "ads", id |-> campaign_id])
             ELSE Returned("ok", [what |-> "ads", id |-> campaign_id,
                                  blocks |-> [i \in 1..Len(found.rows) |-> RowMetrics(found.rows[i])]]))

ListKeywordsQuery(ad_group_id, status_filter) ==
  <<Select("list_keywords"), From("ad_group_criterion"),
    Clause("WHERE", "ad_group.id", "=", ad_group_id),
    Clause("AND", "ad_group_criterion.type", "=", Quote(<<"KEYWORD">>))>>
    \o (IF Truthy(status_filter)
        THEN <<Clause("AND", "ad_group_criterion.status", "=", Quote(status_filter[1]))>>
        ELSE <<>>)

KeywordBlock(row) == [row |-> row.id, bid |-> ShowMicros(row.average_cpc)]

list_keywords(customer_id, ad_group_id, status_filter, found) ==
  LET a == [customer_id |-> customer_id, ad_group_id |-> ad_group_id,
            status_filter |-> status_filter]
      search == SearchRequest(customer_id, ListKeywordsQuery(ad_group_id, status_filter))
  IN  Invoke("list_keywords", a, <<search>>,
             IF found.kind = "error" THEN FormatErrorKeywords(found)
             ELSE IF found.rows = <<>>
             THEN Returned("empty", [what |-> "keywords", id |-> ad_group_id])
             ELSE Returned("ok", [what |-> "keywords", id |-> ad_group_id,
                                  blocks |-> [i \in 1..Len(found.rows) |-> KeywordBlock(found.rows[i])]]))

KeywordPerformanceQuery(campaign_id, date_range) ==
  <<Select("get_keyword_performance"), From("keyword_view"),
    Clause("WHERE", "campaign.id", "=", campaign_id),
    Clause("AND", "segments.date", "DURING", date_range),
    OrderBy("metrics.cost_micros DESC"), Limit(KeywordLimit)>>

PerformanceBlock(row) ==
  [row |-> row.id, impressions |-> row.impressions, clicks |-> row.clicks,
   cost |-> ShowMicros(row.cost_micros), avg_cpc |-> ShowMicros(row.average_cpc),
   conversions |-> row.conversions]

\* the rows of an answer taken last first
RowsOfReversed(found) ==
  IF found.kind = "rows"
  THEN [i \in 1..Len(found.rows) |-> found.rows[Len(found.rows) + 1 - i]]
  ELSE <<>>

\* the rows of an answer, none when it is an exception
RowsOf(found) == IF found.kind = "rows" THEN found.rows ELSE <<>>

\* the report with the test of "if not results" left out
CampaignReportWithoutEmptyTest(name, what, customer_id, campaign_id, date_range, a, query, found, blocks) ==
  Invoke(name, a, <<SearchRequest(customer_id, query)>>,
         IF found.kind = "error"
         THEN (IF name = "get_keyword_performance" THEN FormatErrorKeywords(found)
               ELSE FormatErrorReporting(found))
         ELSE Returned("ok", [what |-> what, id |-> campaign_id,
                              date_range |-> date_range,
                              blocks |-> blocks]))

\* the reports of one campaign over a date range handle the answer alike, each
\* with the _format_error of its module
CampaignReport(name, what, customer_id, campaign_id, date_range, a, query, found, blocks) ==
  Invoke(name, a, <<SearchRequest(customer_id, query)>>,
         IF found.kind = "error"
         THEN (IF name = "get_keyword_performance" THEN FormatErrorKeywords(found)
               ELSE FormatErrorReporting(found))
         ELSE IF found.rows = <<>>
         THEN Returned("empty", [what |-> what, id |-> campaign_id])
         ELSE Returned("ok", [what |-> what, id |-> campaign_id,
                              date_range |-> date_range,
                              blocks |-> blocks]))

get_keyword_performance(customer_id, campaign_id, date_range, found) ==
  CampaignReport("get_keyword_performance", "keyword data", customer_id, campaign_id,
                 date_range,
                 [customer_id |-> customer_id, campaign_id |-> campaign_id,
                  date_range |-> date_range],
                 KeywordPerformanceQuery(campaign_id, date_range), found,
                 [i \in 1..Len(RowsOf(found)) |-> PerformanceBlock(RowsOf(found)[i])])

-----------------------------------------------------------------------------
(* reporting.py                                                            *)

\* the bounds exclusive and the two dates not trimmed
DateClausesExclusive(date_range) ==
  IF Contains(date_range, ",")
  THEN LET parts == Split(date_range, ",")
       IN  <<[kw |-> "AND", lhs |-> "segments.date", op |-> ">",
              rhs |-> <<"'">> \o parts[1] \o <<"'">>],
             [kw |-> "AND", lhs |-> "segments.date", op |-> "<",
              rhs |-> <<"'">> \o parts[2] \o <<"'">>]>>
  ELSE <<[kw |-> "AND", lhs |-> "segments.date", op |-> "DURING", rhs |-> date_range]>>

\* the date predicates of get_campaign_performance
DateClauses(date_range) ==
  IF Contains(date_range, ",")
  THEN LET parts == Split(date_range, ",")
       IN  <<Clause("AND", "segments.date", ">=", Quote(Strip(parts[1]))),
             Clause("AND", "segments.date", "<=", Quote(Strip(parts[2])))>>
  ELSE <<Clause("AND", "segments.date", "DURING", date_range)>>

CampaignPerformanceQuery(date_range, campaign_id) ==
  <<Select("get_campaign_performance"), From("campaign"),
    Clause("WHERE", "campaign.status", "!=", Quote(REMOVED_))>>
    \o (IF Truthy(campaign_id)
        THEN <<Clause("AND", "campaign.id", "=", campaign_id[1])>>
        ELSE <<>>)
    \o DateClauses(date_range)
    \o <<OrderBy("metrics.cost_micros DESC")>>

\* the totals started from the first row instead of from 0: the first row is missed
SummaryWithoutFirstRow(date_range, rows) ==
  LET n == Len(rows) - 1
      total_clicks == SumNat([i \in 1..n |-> rows[i + 1].clicks])
      total_impressions == SumNat([i \in 1..n |-> rows[i + 1].impressions])
      overall_ctr ==
        IF total_impressions # 0 THEN FromRatio(total_clicks, total_impressions)
        ELSE FZero
  IN  [date_range |-> date_range,
       total_cost |->
         FRoundCents(SumFloat([i \in 1..n |-> MicrosAsDollars(rows[i + 1].cost_micros)],
                              FZero)),
       total_clicks |-> total_clicks,
       overall_ctr |-> FPercentDisplay(overall_ctr),
       total_conversions |-> SumNat([i \in 1..n |-> rows[i + 1].conversions])]

\* the summary block: the totals over the rows and the overall click-through rate
Summary(date_range, rows) ==
  LET n == Len(rows)
      total_clicks == SumNat([i \in 1..n |-> rows[i].clicks])
      total_impressions == SumNat([i \in 1..n |-> rows[i].impressions])
      overall_ctr ==
        IF total_impressions # 0 THEN FromRatio(total_clicks, total_impressions)
        ELSE FZero
  IN  [date_range |-> date_range,
       total_cost |->
         FRoundCents(SumFloat([i \in 1..n |-> MicrosAsDollars(rows[i].cost_micros)],
                              FZero)),
       total_clicks |-> total_clicks,
       overall_ctr |-> FPercentDisplay(overall_ctr),
       total_conversions |-> SumNat([i \in 1..n |-> rows[i].conversions])]

\* start, end = date_range.split(",") fails unless there are exactly two parts
UnpackFails(date_range) ==
  Contains(date_range, ",") /\ Len(Split(date_range, ",")) # 2

get_campaign_performance(customer_id, date_range, campaign_id, found) ==
  LET a == [customer_id |-> customer_id, date_range |-> date_range,
            campaign_id |-> campaign_id]
      search ==
        SearchRequest(customer_id, CampaignPerformanceQuery(date_range, campaign_id))
  IN  IF UnpackFails(date_range)
      THEN Invoke("get_campaign_performance", a, <<>>, Raised("ValueError"))
      ELSE Invoke("get_campaign_performance", a, <<search>>,
                  IF found.kind = "error" THEN FormatErrorReporting(found)
                  ELSE IF found.rows = <<>>
                  THEN Returned("empty", [what |-> "campaign data",
                                          date_range |-> date_range])
                  ELSE Returned("ok", [what |-> "campaign data",
                                       blocks |->
                                         <<Summary(date_range, found.rows)>>
                                           \o [i \in 1..Len(found.rows) |->
                                                 PerformanceBlock(found.rows[i])]]))

AdGroupPerformanceQuery(campaign_id, date_range) ==
  <<Select("get_ad_group_performance"), From("ad_group"),
    Clause("WHERE", "campaign.id", "=", campaign_id),
    Clause("AND", "ad_group.status", "!=", Quote(REMOVED_)),
    Clause("AND", "segments.date", "DURING", date_range),
    OrderBy("metrics.cost_micros DESC")>>

get_ad_group_performance(customer_id, campaign_id, date_range, found) ==
  CampaignReport("get_ad_group_performance", "ad groups", customer_id, campaign_id,
                 date_range,
                 [customer_id |-> customer_id, campaign_id |-> campaign_id,
                  date_range |-> date_range],
                 AdGroupPerformanceQuery(campaign_id, date_range), found,
                 [i \in 1..Len(RowsOf(found)) |-> PerformanceBlock(RowsOf(found)[i])])

SearchTermsQuery(campaign_id, date_range, min_impressions) ==
  <<Select("get_search_terms_report"), From("search_term_view"),
    Clause("WHERE", "campaign.id", "=", campaign_id),
    Clause("AND", "segments.date", "DURING", date_range),
    Clause("AND", "metrics.impressions", ">=", <<ToString(min_impressions)>>),
    OrderBy("metrics.impressions DESC"), Limit(SearchTermLimit)>>

get_search_terms_report(customer_id, campaign_id, date_range, min_impressions, found) ==
  CampaignReport("get_search_terms_report", "search terms", customer_id, campaign_id,
                 date_range,
                 [customer_id |-> customer_id, campaign_id |-> campaign_id,
                  date_range |-> date_range, min_impressions |-> min_impressions],
                 SearchTermsQuery(campaign_id, date_range, min_impressions), found,
                 [i \in 1..Len(RowsOf(found)) |-> RowMetrics(RowsOf(found)[i])])

\* the geo query with the limit of the search terms query
GeoPerformanceQueryOfTerms(campaign_id, date_range) ==
  <<Select("get_geo_performance"), From("geographic_view"),
    Clause("WHERE", "campaign.id", "=", campaign_id),
    Clause("AND", "segments.date", "DURING", date_range),
    OrderBy("metrics.impressions DESC"), Limit(SearchTermLimit)>>

GeoPerformanceQuery(campaign_id, date_range) ==
  <<Select("get_geo_performance"), From("geographic_view"),
    Clause("WHERE", "campaign.id", "=", campaign_id),
    Clause("AND", "segments.date", "DURING", date_range),
    OrderBy("metrics.impressions DESC"), Limit(GeoLimit)>>

get_geo_performance(customer_id, campaign_id, date_range, found) ==
  CampaignReport("get_geo_performance", "geo data", customer_id, campaign_id,
                 date_range,
                 [customer_id |-> customer_id, campaign_id |-> campaign_id,
                  date_range |-> date_range],
                 GeoPerformanceQuery(campaign_id, date_range), found,
                 [i \in 1..Len(RowsOf(found)) |-> RowMetrics(RowsOf(found)[i])])

-----------------------------------------------------------------------------

\* the handler's value reaches the caller and the request/response cycle ends:
\* nothing of the invocation is kept
Deliver ==
  /\ phase = "returned"
  /\ phase' = "idle"
  /\ tool' = "none"
  /\ args' = <<>>
  /\ requests' = <<>>
  /\ result' = Returned("none", <<>>)
  /\ answers' = <<>>
  /\ UNCHANGED <<registry, config_files, amount, micros, shown, calls>>

-----------------------------------------------------------------------------
(* config.py: the credentials                                              *)

\* a place the config file is looked for: the path tried and whether
\* Path(path).exists()
ConfigPath(path, exists) == [path |-> path, exists |-> exists]

\* GOOGLE_ADS_CREDENTIALS unset gives the path "", and Path("") is the working
\* directory, which exists
EnvUnset == ConfigPath("", TRUE)

\* the three places, in the order they are tried
FileSystems ==
  {<<EnvUnset, ConfigPath("server/google-ads.yaml", FALSE),
     ConfigPath("home/google-ads.yaml", FALSE)>>,
   <<ConfigPath("etc/ads.yaml", FALSE), ConfigPath("server/google-ads.yaml", FALSE),
     ConfigPath("home/google-ads.yaml", FALSE)>>,
   <<EnvUnset, ConfigPath("server/google-ads.yaml", FALSE),
     ConfigPath("home/google-ads.yaml", TRUE)>>}

\* any path that exists is read, the unset one included
LoadConfigUnguarded(config_paths) ==
  LET found == {i \in 1..Len(config_paths) : config_paths[i].exists}
  IN  IF found = {} THEN <<>>
      ELSE <<config_paths[CHOOSE i \in found : \A j \in found : i <= j].path>>

\* the first path that is set and exists, <<the file>>; <<>> when it raises
\* FileNotFoundError
load_google_ads_config(config_paths) ==
  LET found == {i \in 1..Len(config_paths) :
                  config_paths[i].path # "" /\ config_paths[i].exists}
  IN  IF found = {} THEN <<>>
      ELSE <<config_paths[CHOOSE i \in found : \A j \in found : i <= j].path>>

\* <<the client>>, <<>> when load_google_ads_config raises
get_google_ads_client(config_paths) == load_google_ads_config(config_paths)

-----------------------------------------------------------------------------
(* server.py: the tools are mounted when the module is loaded              *)

campaigns_get_tools ==
  <<"list_campaigns", "get_campaign", "create_campaign", "update_campaign_status",
    "update_campaign_budget">>

\* get_keyword_performance is exported by the reporting module as well
reporting_get_tools_shadowing ==
  <<"get_campaign_performance", "get_ad_group_performance", "get_search_terms_report",
    "get_keyword_performance">>

reporting_get_tools ==
  <<"get_campaign_performance", "get_ad_group_performance", "get_search_terms_report",
    "get_geo_performance">>

keywords_get_tools ==
  <<"list_keywords", "add_keywords", "add_negative_keywords", "get_keyword_performance">>

ads_get_tools ==
  <<"create_ad_group", "create_responsive_search_ad", "list_ads", "update_ad_status">>

\* for tool_module in [campaigns, reporting, keywords, ads]
ToolModules ==
  <<campaigns_get_tools, reporting_get_tools, keywords_get_tools, ads_get_tools>>

\* for tool in tool_module.get_tools(): mcp_server.add_tool(tool)
RECURSIVE AddTools(_, _)
AddTools(mounted, tools) ==
  IF tools = <<>> THEN mounted
  ELSE AddTools(mounted \cup {Head(tools)}, Tail(tools))

RECURSIVE MountModules(_, _)
MountModules(mounted, modules) ==
  IF modules = <<>> THEN mounted
  ELSE MountModules(AddTools(mounted, Head(modules)), Tail(modules))

MountedTools == MountModules({}, ToolModules)

\* names a caller may ask for
RequestedNames ==
  MountedTools \cup {"delete_campaign", "List_Campaigns", "get_keyword_performance ", ""}

-----------------------------------------------------------------------------

\* the invocations the host serves at the same time
Slots == {1, 2}

\* the locals of a create_campaign invocation that has not been called
NotCalled ==
  [pc |-> "idle", args |-> <<>>, budget_resource |-> <<>>, requests |-> <<>>,
   answers |-> <<>>, result |-> Returned("none", <<>>), overlapped |-> FALSE]

Init ==
  /\ phase = "idle"
  /\ tool = "none"
  /\ args = <<>>
  /\ requests = <<>>
  /\ result = Returned("none", <<>>)
  /\ answers = <<>>
  /\ registry = MountedTools
  /\ config_files \in FileSystems
  /\ amount = Dollars(FALSE, 0, 0)
  /\ micros = <<>>
  /\ shown = <<>>
  /\ calls = [p \in Slots |-> NotCalled]

Idle == phase = "idle"

\* the handler of a mounted tool runs with a client made from the credentials
Entered(name) ==
  /\ Idle
  /\ name \in registry
  /\ get_google_ads_client(config_files) # <<>>

\* the stub answers every request the handler issues, in order
Answered(given) == SubSeq(given, 1, Len(requests'))

\* client = get_google_ads_client() is the first statement of every handler:
\* without a config file it raises before an argument is read or a request built
InvokeWithoutCredentials ==
  /\ Idle
  /\ get_google_ads_client(config_files) = <<>>
  /\ \E name \in registry :
       /\ phase' = "returned"
       /\ tool' = name
       /\ args' = <<>>
       /\ requests' = <<>>
       /\ answers' = <<>>
       /\ result' = Raised("FileNotFoundError")
  /\ UNCHANGED <<registry, config_files, amount, micros, shown, calls>>

\* the server is asked for a name no tool is mounted under: no handler runs
InvokeUnknownTool ==
  /\ Idle
  /\ \E name \in RequestedNames \ registry :
       /\ phase' = "returned"
       /\ tool' = name
       /\ args' = <<>>
       /\ requests' = <<>>
       /\ answers' = <<>>
       /\ result' = Returned("unknown_tool", [name |-> name])
  /\ UNCHANGED <<registry, config_files, amount, micros, shown, calls>>

InvokeUpdateCampaignStatus ==
  /\ Entered("update_campaign_status")
  /\ \E c \in CustomerIds, id \in CampaignIds, s \in StatusTexts, ans \in MutateAnswers :
       /\ update_campaign_status(c, id, s, ans)
       /\ answers' = Answered(<<ans>>)

InvokeUpdateCampaignBudget ==
  /\ Entered("update_campaign_budget")
  /\ \E c \in CustomerIds, id \in CampaignIds, d \in AmountInputs,
        found \in SearchAnswers, ans \in MutateAnswers :
       /\ update_campaign_budget(c, id, d, found, ans)
       /\ answers' = Answered(<<found, ans>>)

InvokeCreateCampaign ==
  /\ Entered("create_campaign")
  /\ \E c \in CustomerIds, n \in Names, d \in AmountInputs, ch \in ChannelTexts,
        sd \in OptionalDates, ed \in {None, Some(<<"2024", "-", "12", "-", "31">>)},
        bans \in MutateAnswers, ans \in MutateAnswers :
       /\ create_campaign(c, n, d, ch, sd, ed, bans, ans)
       /\ answers' = Answered(<<bans, ans>>)

InvokeCreateAdGroup ==
  /\ Entered("create_ad_group")
  /\ \E c \in CustomerIds, id \in CampaignIds, n \in Names, bid \in OptionalAmounts,
        ans \in MutateAnswers :
       /\ create_ad_group(c, id, n, bid, ans)
       /\ answers' = Answered(<<ans>>)

InvokeCreateResponsiveSearchAd ==
  /\ Entered("create_responsive_search_ad")
  /\ \E c \in CustomerIds, id \in AdGroupIds, h \in ListTexts("|"),
        d \in {<<"a", "|", "b">>, <<>>}, u \in Urls,
        p1 \in OptionalPaths, p2 \in OptionalPaths, ans \in MutateAnswers :
       /\ create_responsive_search_ad(c, id, h, d, u, p1, p2, ans)
       /\ answers' = Answered(<<ans>>)

InvokeUpdateAdStatus ==
  /\ Entered("update_ad_status")
  /\ \E c \in CustomerIds, g \in AdGroupIds, id \in AdIds, s \in StatusTexts,
        ans \in MutateAnswers :
       /\ update_ad_status(c, g, id, s, ans)
       /\ answers' = Answered(<<ans>>)

InvokeAddKeywords ==
  /\ Entered("add_keywords")
  /\ \E c \in CustomerIds, id \in AdGroupIds, k \in ListTexts(","),
        m \in MatchTypeTexts, bid \in BidInputs, ans \in MutateAnswers :
       /\ add_keywords(c, id, k, m, bid, ans)
       /\ answers' = Answered(<<ans>>)

InvokeAddNegativeKeywords ==
  /\ Entered("add_negative_keywords")
  /\ \E c \in CustomerIds, id \in CampaignIds, k \in ListTexts(","),
        ans \in MutateAnswers :
       /\ add_negative_keywords(c, id, k, ans)
       /\ answers' = Answered(<<ans>>)

InvokeListCampaigns ==
  /\ Entered("list_campaigns")
  /\ \E c \in CustomerIds, f \in OptionalStatusFilters, found \in SearchAnswers :
       /\ list_campaigns(c, f, found)
       /\ answers' = Answered(<<found>>)

InvokeGetCampaign ==
  /\ Entered("get_campaign")
  /\ \E c \in CustomerIds, id \in CampaignIds, found \in SearchAnswers :
       /\ get_campaign(c, id, found)
       /\ answers' = Answered(<<found>>)

InvokeListAds ==
  /\ Entered("list_ads")
  /\ \E c \in CustomerIds, id \in CampaignIds, f \in OptionalStatusFilters,
        found \in SearchAnswers :
       /\ list_ads(c, id, f, found)
       /\ answers' = Answered(<<found>>)

InvokeListKeywords ==
  /\ Entered("list_keywords")
  /\ \E c \in CustomerIds, id \in AdGroupIds, f \in OptionalStatusFilters,
        found \in SearchAnswers :
       /\ list_keywords(c, id, f, found)
       /\ answers' = Answered(<<found>>)

InvokeGetKeywordPerformance ==
  /\ Entered("get_keyword_performance")
  /\ \E c \in CustomerIds, id \in CampaignIds, r \in DateRangeTexts,
        found \in AnswersAround(KeywordLimit) :
       /\ get_keyword_performance(c, id, r, found)
       /\ answers' = Answered(<<found>>)

InvokeGetCampaignPerformance ==
  /\ Entered("get_campaign_performance")
  /\ \E c \in CustomerIds, r \in DateRangeTexts, id \in OptionalCampaignIds,
        found \in SearchAnswers :
       /\ get_campaign_performance(c, r, id, found)
       /\ answers' = Answered(<<found>>)

InvokeGetAdGroupPerformance ==
  /\ Entered("get_ad_group_performance")
  /\ \E c \in CustomerIds, id \in CampaignIds, r \in DateRangeTexts,
        found \in SearchAnswers :
       /\ get_ad_group_performance(c, id, r, found)
       /\ answers' = Answered(<<found>>)

InvokeGetSearchTermsReport ==
  /\ Entered("get_search_terms_report")
  /\ \E c \in CustomerIds, id \in CampaignIds, r \in DateRangeTexts,
        n \in MinImpressions, found \in AnswersAround(SearchTermLimit) :
       /\ get_search_terms_report(c, id, r, n, found)
       /\ answers' = Answered(<<found>>)

InvokeGetGeoPerformance ==
  /\ Entered("get_geo_performance")
  /\ \E c \in CustomerIds, id \in CampaignIds, r \in DateRangeTexts,
        found \in AnswersAround(GeoLimit) :
       /\ get_geo_performance(c, id, r, found)
       /\ answers' = Answered(<<found>>)

Next ==
  \/ InvokeListCampaigns
  \/ InvokeGetCampaign
  \/ InvokeListAds
  \/ InvokeListKeywords
  \/ InvokeGetKeywordPerformance
  \/ InvokeGetCampaignPerformance
  \/ InvokeGetAdGroupPerformance
  \/ InvokeGetSearchTermsReport
  \/ InvokeGetGeoPerformance
  \/ InvokeCreateCampaign
  \/ InvokeUpdateCampaignStatus
  \/ InvokeUpdateCampaignBudget
  \/ InvokeCreateAdGroup
  \/ InvokeCreateResponsiveSearchAd
  \/ InvokeUpdateAdStatus
  \/ InvokeAddKeywords
  \/ InvokeAddNegativeKeywords
  \/ InvokeWithoutCredentials
  \/ InvokeUnknownTool
  \/ Deliver

Spec == Init /\ [][Next]_vars

-----------------------------------------------------------------------------
(* The value codec on its own: a dollar amount is turned into micros as    *)
(* the creating and updating tools do, and the micros are shown in dollars *)
(* as the listing tools do.                                                *)

MaxCents == 300

MaxMills == 120

CodecAmounts ==
  {Dollars(FALSE, c, 2) : c \in 0..MaxCents}
    \cup {Dollars(FALSE, m, 3) : m \in 0..MaxMills}
    \cup {d \in AmountInputs : ~d.neg}

\* budget.amount_micros = int(daily_budget_dollars * 1_000_000)
ConvertToMicros ==
  /\ Idle
  /\ micros = <<>>
  /\ \E d \in CodecAmounts :
       /\ amount' = d
       /\ micros' = <<DollarsToMicros(d)>>
  /\ UNCHANGED <<phase, tool, args, requests, result, answers, registry, config_files, shown, calls>>

\* budget_amount = row.campaign_budget.amount_micros / 1_000_000, f"{budget_amount:.2f}"
ShowDollars ==
  /\ micros # <<>>
  /\ shown = <<>>
  /\ shown' = <<MicrosToDisplayCents(micros[1])>>
  /\ UNCHANGED <<phase, tool, args, requests, result, answers, registry, config_files, amount, micros, calls>>

\* the next amount
Forget ==
  /\ shown # <<>>
  /\ amount' = Dollars(FALSE, 0, 0)
  /\ micros' = <<>>
  /\ shown' = <<>>
  /\ UNCHANGED <<phase, tool, args, requests, result, answers, registry, config_files, calls>>

NextCodec == ConvertToMicros \/ ShowDollars \/ Forget

SpecCodec == Init /\ [][NextCodec]_vars

-----------------------------------------------------------------------------
(* create_campaign served concurrently: the handler taken one platform call *)
(* at a time, each invocation with its own locals                           *)

\* the arguments of the concurrent invocations
CreateCampaignCalls ==
  {[customer_id |-> c, name |-> <<"Parkas">>,
    daily_budget_dollars |-> Dollars(FALSE, 201, 2), channel_type |-> SEARCH_,
    start_date |-> Some(<<"2024", "-", "01", "-", "31">>), end_date |-> None] :
     c \in CustomerIds}

\* the answers of the stub to their mutations
ResourceAnswers ==
  {[kind |-> "results", results |-> <<"res/1">>],
   [kind |-> "results", results |-> <<"res/2">>],
   [kind |-> "results", results |-> <<>>],
   [kind |-> "error", errors |-> <<"m1">>]}

\* the other actions leave the invocation that is not being served alone
Serving == UNCHANGED <<phase, tool, args, requests, result, answers, registry, config_files, amount, micros, shown>>

\* the handler is entered with its arguments and builds its own client
Call(p) ==
  /\ calls[p].pc = "idle"
  /\ "create_campaign" \in registry
  /\ \E a \in CreateCampaignCalls :
       calls' = [calls EXCEPT ![p] =
                   IF get_google_ads_client(config_files) = <<>>
                   THEN [@ EXCEPT !.pc = "done", !.args = a,
                                  !.result = Raised("FileNotFoundError")]
                   ELSE [@ EXCEPT !.pc = "budget", !.args = a]]
  /\ Serving

\* another invocation is between its entry and its return
Overlapped(p) == \E q \in Slots \ {p} : calls[q].pc \in {"budget", "campaign"}

\* the budget of the response that came last, whichever invocation got it
BudgetOfLatest(p) ==
  LET others == {q \in Slots \ {p} : calls[q].budget_resource # <<>>}
  IN  IF others = {} THEN calls[p].budget_resource[1]
      ELSE calls[CHOOSE q \in others : TRUE].budget_resource[1]

\* the budget of the campaign: the one of this invocation's own budget response
BudgetOf(p) == calls[p].budget_resource[1]

\* budget_service.mutate_campaign_budgets(...) and results[0].resource_name
MutateBudget(p) ==
  /\ calls[p].pc = "budget"
  /\ \E budget_answer \in ResourceAnswers :
       LET a == calls[p].args
           budget_request ==
             MutateRequest("CampaignBudgetService", a.customer_id,
                           <<BudgetCreateOperation(a.name, a.daily_budget_dollars)>>)
           sent == [calls[p] EXCEPT !.requests = <<budget_request>>,
                                    !.answers = <<budget_answer>>]
       IN  calls' = [calls EXCEPT ![p] =
                       IF budget_answer.kind = "error"
                       THEN [sent EXCEPT !.pc = "done",
                                         !.result = FormatError(budget_answer)]
                       ELSE IF budget_answer.results = <<>>
                       THEN [sent EXCEPT !.pc = "done", !.result = Raised("IndexError")]
                       ELSE [sent EXCEPT !.pc = "campaign",
                                         !.budget_resource = <<budget_answer.results[1]>>]]
  /\ Serving

\* campaign_service.mutate_campaigns(...) and the confirmation text
MutateCampaign(p) ==
  /\ calls[p].pc = "campaign"
  /\ \E answer \in ResourceAnswers :
       LET a == calls[p].args
           campaign_request ==
             MutateRequest("CampaignService", a.customer_id,
                           <<CampaignCreateOperation(a.name, BudgetOf(p),
                                                     a.channel_type, a.start_date,
                                                     a.end_date)>>)
       IN  calls' = [calls EXCEPT ![p] =
                       [@ EXCEPT !.pc = "done",
                                 !.overlapped = @ \/ Overlapped(p),
                                 !.requests = Append(@, campaign_request),
                                 !.answers = Append(@, answer),
                                 !.result =
                                   IF answer.kind = "error" THEN FormatError(answer)
                                   ELSE IF answer.results = <<>> THEN Raised("IndexError")
                                   ELSE Returned("ok", [what |-> "campaign_created",
                                                        name |-> a.name,
                                                        resource |-> answer.results[1],
                                                        channel |-> a.channel_type,
                                                        budget |-> DisplayDollars(a.daily_budget_dollars),
                                                        status |-> PAUSED_,
                                                        start |-> OrNotSet(a.start_date),
                                                        end |-> OrNotSet(a.end_date)])]]
  /\ Serving

\* the same invocation served alone, from entry to return
CreateCampaignAlone ==
  /\ Entered("create_campaign")
  /\ \E a \in CreateCampaignCalls, budget_answer \in ResourceAnswers, answer \in ResourceAnswers :
       /\ create_campaign(a.customer_id, a.name, a.daily_budget_dollars, a.channel_type,
                          a.start_date, a.end_date, budget_answer, answer)
       /\ answers' = Answered(<<budget_answer, answer>>)

\* create_campaign called alone without a credential file
CreateCampaignAloneWithoutCredentials ==
  /\ InvokeWithoutCredentials
  /\ tool' = "create_campaign"

NextConcurrent ==
  \/ \E p \in Slots : Call(p)
  \/ \E p \in Slots : MutateBudget(p)
  \/ \E p \in Slots : MutateCampaign(p)
  \/ CreateCampaignAlone
  \/ CreateCampaignAloneWithoutCredentials

SpecConcurrent == Init /\ [][NextConcurrent]_vars

-----------------------------------------------------------------------------
(* Properties                                                              *)

\* a handler has returned, having had its client
Returned_ == phase = "returned" /\ get_google_ads_client(config_files) # <<>>

\* the operations of every mutation issued by the invocation, in order
RECURSIVE OperationsOf(_)
OperationsOf(reqs) ==
  IF reqs = <<>> THEN <<>>
  ELSE (IF Head(reqs).kind = "mutate" THEN Head(reqs).operations ELSE <<>>)
         \o OperationsOf(Tail(reqs))

Operations == OperationsOf(requests)

Range(f) == {f[i] : i \in DOMAIN f}

UpdateTools == {"update_campaign_status", "update_campaign_budget", "update_ad_status"}

StatusTools == {"update_campaign_status", "update_ad_status"}

\* C1: every update operation an update tool sends carries a field mask that is
\* exactly the set of attributes assigned on the update payload, the target
\* resource path aside: no attribute that was not assigned, no assigned attribute
\* missing, never empty; and what an update tool sends is one update operation.
C1_FieldMaskExact ==
  (Returned_ /\ tool \in UpdateTools) =>
    /\ \A i \in 1..Len(Operations) :
         /\ Operations[i].op = "update"
         /\ Operations[i].mask # <<>>
         /\ Range(Operations[i].mask) = DOMAIN Operations[i].fields \ {"resource_name"}
         /\ Len(Operations[i].mask) = Cardinality(Range(Operations[i].mask))
    /\ result.class \in {"ok", "platform_error"} /\ tool \in StatusTools
         => Len(Operations) = 1
    /\ result.class = "ok" => Len(Operations) = 1

C1_Witness ==
  /\ Returned_
  /\ tool = "update_campaign_budget"
  /\ Len(requests) = 2
  /\ requests[2].operations[1].mask = <<"amount_micros">>
  /\ result.class = "ok"

\* s spells the name, each letter in upper or in lower case
SpellsIgnoringCase(s, name) ==
  /\ Len(s) = Len(name)
  /\ \A i \in 1..Len(name) : s[i] \in {name[i], LowerChunk(name[i])}

StatusNames == {ENABLED_, PAUSED_, REMOVED_}

\* C2: in update_campaign_status and update_ad_status a new_status that spells
\* ENABLED, PAUSED or REMOVED in any letter case is accepted: one mutation is sent,
\* it carries that status under its upper-case name, and the confirmation names it
\* in upper case; any other string gives the invalid-arguments answer and no
\* request is sent.
C2_StatusNormalised ==
  (Returned_ /\ tool \in StatusTools) =>
    LET spelled == {n \in StatusNames : SpellsIgnoringCase(args.new_status, n)}
    IN  IF spelled # {}
        THEN /\ Len(requests) = 1
             /\ requests[1].kind = "mutate"
             /\ Len(requests[1].operations) = 1
             /\ requests[1].operations[1].fields.status \in spelled
             /\ result.class \in {"ok", "platform_error"}
             /\ result.class = "ok" => result.text.status \in spelled
        ELSE /\ result.class = "invalid"
             /\ requests = <<>>

C2_Witness ==
  /\ Returned_
  /\ tool = "update_ad_status"
  /\ args.new_status = <<"p","A","u","s","E","d">>
  /\ result.class = "ok"
  /\ result.text.status = PAUSED_

AmountTools == {"create_campaign", "update_campaign_budget", "create_ad_group", "add_keywords"}

\* the dollar amount handed to the invocation, <<>> when it takes none
AmountArgument ==
  IF tool = "create_campaign" THEN Some(args.daily_budget_dollars)
  ELSE IF tool = "update_campaign_budget" THEN Some(args.new_daily_budget_dollars)
  ELSE IF tool \in {"create_ad_group", "add_keywords"} THEN args.cpc_bid_dollars
  ELSE None

NegativeAmount == AmountArgument # None /\ AmountArgument[1].neg

\* C3: a negative dollar amount handed to create_campaign, update_campaign_budget,
\* create_ad_group or add_keywords fails as invalid arguments, locally: the
\* invocation issues no query and no mutation.
C3_NegativeAmountRejected ==
  (Returned_ /\ tool \in AmountTools /\ NegativeAmount) =>
    /\ result.class = "invalid"
    /\ requests = <<>>

\* round(d, 2) in cents: the double of d rounded to two decimals
RoundToCents(d) == FRoundCents(FromRatio(d.n, Pow10(d.k)))

\* C4 as stated: for every dollar amount d >= 0, the micros computed from d, shown
\* in dollars, give round(d, 2).
C4_RoundTripEveryAmount ==
  shown # <<>> => shown[1] = RoundToCents(amount)

\* C4 as amended: for every dollar amount d >= 0 with at most five fractional
\* digits, the micros computed from d, shown in dollars, give round(d, 2).
C4_RoundTrip ==
  (shown # <<>> /\ amount.k <= 5) => shown[1] = RoundToCents(amount)

C4_Witness ==
  /\ shown = <<201>>
  /\ micros = <<2009999>>
  /\ amount = Dollars(FALSE, 201, 2)

\* floor(d * 1,000,000) of the decimal numeral d >= 0
ExactMicros(d) ==
  IF d.k <= 6 THEN d.n * Pow10(6 - d.k) ELSE d.n \div Pow10(d.k - 6)

\* the micros of the amount argument as sent to the platform
SentMicros ==
  LET slots == {p \in (1..Len(Operations)) \X {"amount_micros", "cpc_bid_micros"} :
                  p[2] \in DOMAIN Operations[p[1]].fields}
  IN  {Operations[p[1]].fields[p[2]] : p \in slots}

\* C5: the micros sent by create_campaign, update_campaign_budget, create_ad_group
\* and add_keywords for an amount d >= 0 are floor(d * 1,000,000): the conversion
\* truncates and never rounds, and a whole-cent amount of c cents becomes exactly
\* c * 10,000 micros.
C5_MicrosExact ==
  (Returned_ /\ tool \in AmountTools /\ AmountArgument # None /\ ~NegativeAmount) =>
    \A m \in SentMicros : m = ExactMicros(AmountArgument[1])

\* C6: create_campaign with a daily budget of $50.00 and channel "search" sends a
\* budget creation of exactly 50000000 micros, and whatever the arguments, the
\* campaign creation it sends carries status PAUSED.
C6_CreatedPaused ==
  (Returned_ /\ tool = "create_campaign") =>
    /\ Len(requests) >= 1
    /\ requests[1].service = "CampaignBudgetService"
    /\ Len(requests[1].operations) = 1
    /\ requests[1].operations[1].op = "create"
    /\ (args.daily_budget_dollars = Dollars(FALSE, 5000, 2)
        /\ args.channel_type = <<"s","e","a","r","c","h">>)
         => requests[1].operations[1].fields.amount_micros = 50000000
    /\ \A i \in 2..Len(requests) :
         /\ requests[i].service = "CampaignService"
         /\ \A j \in 1..Len(requests[i].operations) :
              /\ requests[i].operations[j].op = "create"
              /\ requests[i].operations[j].fields.status = PAUSED_
    /\ result.class = "ok" =>
         /\ Len(requests) = 2
         /\ Len(requests[2].operations) = 1
         /\ result.text.status = PAUSED_

C6_Witness ==
  /\ Returned_
  /\ tool = "create_campaign"
  /\ args.daily_budget_dollars = Dollars(FALSE, 5000, 2)
  /\ args.channel_type = <<"s","e","a","r","c","h">>
  /\ result.class = "ok"
  /\ requests[1].operations[1].fields.amount_micros = 50000000
  /\ requests[2].operations[1].fields.status = PAUSED_
  /\ requests[2].operations[1].fields.advertising_channel_type = SEARCH_

ListTools == {"add_keywords", "add_negative_keywords", "create_responsive_search_ad"}

\* the delimited texts handed to the invocation, each with its separator
ListArguments ==
  IF tool = "create_responsive_search_ad"
  THEN {<<args.headlines, "|">>, <<args.descriptions, "|">>}
  ELSE {<<args.keywords, ",">>}

\* the text holds no item: it is empty, or made of blanks and separators only
OnlyBlankItems(t, sep) == \A i \in 1..Len(t) : t[i] \in {" ", sep}

\* the texts of the create operations, in order
SentTexts(list) ==
  IF tool = "create_responsive_search_ad"
  THEN LET assets == IF list = args.headlines
                     THEN Operations[1].fields.headlines
                     ELSE Operations[1].fields.descriptions
       IN  [i \in 1..Len(assets) |-> assets[i].text]
  ELSE [i \in 1..Len(Operations) |-> Operations[i].fields.keyword_text]

\* C7: the delimited lists of add_keywords, add_negative_keywords (comma) and
\* create_responsive_search_ad (pipe) are sent as their trimmed items in input
\* order; an input that is empty or holds only blank items fails validation: no
\* mutation is sent and no create operation with an empty text is built.
C7_ListParsed ==
  (Returned_ /\ tool \in ListTools) =>
    \A l \in ListArguments :
      /\ OnlyBlankItems(l[1], l[2]) => (requests = <<>> /\ result.class = "invalid")
      /\ Operations # <<>> =>
           /\ SentTexts(l[1]) = ParseList(l[1], l[2])
           /\ \A i \in 1..Len(SentTexts(l[1])) : SentTexts(l[1])[i] # <<>>

IsoDates == {"2024-01-01", "2024-01-31", "2024-02-01"}

\* the day of the year 2024 of an ISO date of the model
DayNumber(d) ==
  CASE d = "2024-01-01" -> 1
    [] d = "2024-01-31" -> 31
    [] d = "2024-02-01" -> 32

IsIsoDate(t) == Len(t) = 1 /\ t[1] \in IsoDates

\* the text is "start,end": two ISO dates, the first not after the second
ValidLiteralRange(t) ==
  LET commas == {i \in 1..Len(t) : t[i] = ","}
      at     == CHOOSE i \in commas : TRUE
      start  == Strip(SubSeq(t, 1, at - 1))
      end    == Strip(SubSeq(t, at + 1, Len(t)))
  IN  /\ Cardinality(commas) = 1
      /\ IsIsoDate(start)
      /\ IsIsoDate(end)
      /\ DayNumber(start[1]) <= DayNumber(end[1])

\* C8: in get_campaign_performance a date_range that holds a comma is accepted
\* only when it is two ISO dates with start <= end; any other value with a comma
\* fails as invalid arguments before a query is sent.
C8_LiteralRangeValidated ==
  (Returned_ /\ tool = "get_campaign_performance" /\ Contains(args.date_range, ",")) =>
    IF ValidLiteralRange(args.date_range)
    THEN Len(requests) = 1 /\ result.class # "invalid"
    ELSE requests = <<>> /\ result.class = "invalid"

\* the date predicates of a query
DatePredicates(query) == SelectSeq(query, LAMBDA c : c.lhs = "segments.date")

\* the text of a query: its clauses one after the other
RECURSIVE QueryText(_)
QueryText(query) ==
  IF query = <<>> THEN <<>>
  ELSE LET c == Head(query)
       IN  SelectSeq(<<c.kw, c.lhs, c.op>>, LAMBDA w : w # "") \o c.rhs
             \o QueryText(Tail(query))

\* the text has exactly one comma: a literal "S,E"
IsLiteralPair(t) == Cardinality({i \in 1..Len(t) : t[i] = ","}) = 1

CommaAt(t) == CHOOSE i \in 1..Len(t) : t[i] = ","

\* C9: in get_campaign_performance a literal "S,E" adds exactly the predicates
\* segments.date >= 'S' and segments.date <= 'E', S and E trimmed, and no DURING
\* predicate; a relative token adds exactly one DURING predicate naming it and no
\* bound; a query built from one form is never a query built from the other.
C9_DateForms ==
  (Returned_ /\ tool = "get_campaign_performance" /\ requests # <<>>) =>
    LET r == args.date_range
        q == requests[1].query
    IN  /\ IsLiteralPair(r) =>
             /\ DatePredicates(q) =
                  <<[kw |-> "AND", lhs |-> "segments.date", op |-> ">=",
                     rhs |-> <<"'">> \o Strip(SubSeq(r, 1, CommaAt(r) - 1)) \o <<"'">>],
                    [kw |-> "AND", lhs |-> "segments.date", op |-> "<=",
                     rhs |-> <<"'">> \o Strip(SubSeq(r, CommaAt(r) + 1, Len(r))) \o <<"'">>]>>
             /\ \A t \in DateRangeTokens, id \in OptionalCampaignIds :
                  QueryText(CampaignPerformanceQuery(t, id)) # QueryText(q)
        /\ r \in DateRangeTokens =>
             /\ DatePredicates(q) =
                  <<[kw |-> "AND", lhs |-> "segments.date", op |-> "DURING", rhs |-> r]>>
             /\ \A t \in {x \in DateRangeTexts : IsLiteralPair(x)},
                   id \in OptionalCampaignIds :
                  QueryText(CampaignPerformanceQuery(t, id)) # QueryText(q)

C9_Witness ==
  /\ Returned_
  /\ tool = "get_campaign_performance"
  /\ args.date_range = <<" ", "2024-01-01", " ", ",", " ", "2024-01-31", " ">>
  /\ Len(requests) = 1
  /\ Len(DatePredicates(requests[1].query)) = 2
  /\ result.class = "ok"

DateRangeTools ==
  {"get_campaign_performance", "get_ad_group_performance", "get_search_terms_report",
   "get_geo_performance", "get_keyword_performance"}

\* the DURING predicates of the queries the invocation sent
DuringValues ==
  {requests[p[1]].query[p[2]].rhs :
     p \in {x \in (1..Len(requests)) \X (1..8) :
              /\ requests[x[1]].kind = "search"
              /\ x[2] <= Len(requests[x[1]].query)
              /\ requests[x[1]].query[x[2]].op = "DURING"}}

\* C10: in every tool that takes date_range a DURING predicate only ever names
\* LAST_7_DAYS, LAST_30_DAYS, THIS_MONTH or LAST_MONTH; any other value that is
\* not a literal pair fails as invalid arguments and no query is sent.
C10_DuringTokens ==
  (Returned_ /\ tool \in DateRangeTools) =>
    /\ DuringValues \subseteq DateRangeTokens
    /\ (args.date_range \notin DateRangeTokens /\ ~Contains(args.date_range, ","))
         => (requests = <<>> /\ result.class = "invalid")

\* the tools whose query names one campaign
CampaignQueryTools ==
  {"get_campaign", "update_campaign_budget", "list_ads", "get_ad_group_performance",
   "get_search_terms_report", "get_geo_performance", "get_keyword_performance",
   "get_campaign_performance"}

\* <<the campaign id the query is for>>, <<>> when the invocation names none
QueriedCampaign ==
  IF tool = "get_campaign_performance"
  THEN (IF Truthy(args.campaign_id) THEN args.campaign_id ELSE <<>>)
  ELSE <<args.campaign_id>>

\* the stub answered the invocation's query with zero rows and no exception
AnsweredNoRows ==
  /\ Returned_
  /\ tool \in CampaignQueryTools
  /\ QueriedCampaign # <<>>
  /\ answers # <<>>
  /\ answers[1].kind = "rows"
  /\ answers[1].rows = <<>>

NotFoundClasses == {"not_found", "empty"}

\* a platform-error block is returned only when the stub raised
ErrorBlockOnlyWhenRaised ==
  (Returned_ /\ result.class = "platform_error") =>
    \E i \in 1..Len(answers) : answers[i].kind = "error"

\* C11 as stated: when the stub answers the query for a campaign id with zero
\* rows and no exception, the tool returns a not-found response that names that id
\* and never the platform-error block; a platform-error block is returned only when
\* the stub raised a platform exception.
C11_NotFoundNamesId ==
  /\ AnsweredNoRows =>
       /\ result.class \in NotFoundClasses
       /\ "id" \in DOMAIN result.text
       /\ result.text.id = QueriedCampaign[1]
  /\ ErrorBlockOnlyWhenRaised

\* C11 as amended: the same, but the not-found response of get_campaign_performance
\* names the date range asked for and not the campaign id.
C11_NotFound ==
  /\ AnsweredNoRows =>
       /\ result.class \in NotFoundClasses
       /\ IF tool = "get_campaign_performance"
          THEN DOMAIN result.text = {"what", "date_range"}
               /\ result.text.date_range = args.date_range
          ELSE "id" \in DOMAIN result.text /\ result.text.id = QueriedCampaign[1]
  /\ ErrorBlockOnlyWhenRaised

C11_Witness ==
  /\ AnsweredNoRows
  /\ tool = "get_ad_group_performance"
  /\ result.class = "empty"
  /\ result.text.id = <<"111">>

\* the platform exception the stub raised in the invocation
RaisedException == answers[Len(answers)]

StubRaised == answers # <<>> /\ answers[Len(answers)].kind = "error"

\* the lines of a text
LinesOf(text) == Split(text, "\n")

\* C12: for a platform exception that carries n failure messages the error text is
\* one header line followed by exactly n lines, the i-th of which is "Error: " and
\* the i-th message: every message once, on its own line, in the payload's order;
\* and the _format_error functions of the four modules give the same text.
C12_ErrorLines ==
  (Returned_ /\ result.class = "platform_error") =>
    LET ex == RaisedException
        n  == Len(ex.errors)
        lines == LinesOf(result.text)
    IN  /\ StubRaised
        /\ Len(lines) = n + 1
        /\ lines[1] = <<"Google Ads API Error:">>
        /\ \A i \in 1..n : lines[i + 1] = <<"Error: ", ex.errors[i]>>
        /\ FormatErrorReporting(ex) = FormatError(ex)
        /\ FormatErrorKeywords(ex) = FormatError(ex)
        /\ FormatErrorAds(ex) = FormatError(ex)

C12_Witness ==
  /\ Returned_
  /\ tool = "get_geo_performance"
  /\ StubRaised
  /\ RaisedException.errors = <<"m2", "m1">>
  /\ result.class = "platform_error"
  /\ result.text = <<"Google Ads API Error:", "\n", "Error: ", "m2", "\n", "Error: ", "m1">>

\* C13: in every invocation, once the stub raises a platform exception no further
\* platform call is issued (the failed call is not retried and no later step runs)
\* and the value returned is the platform-error block built from that exception,
\* never a success text.
C13_FailureIsTerminal ==
  Returned_ =>
    /\ Len(answers) = Len(requests)
    /\ \A i \in 1..Len(answers) :
         answers[i].kind = "error" =>
           /\ i = Len(requests)
           /\ result = FormatError(answers[i])
           /\ \A j \in 1..(i - 1) : requests[j] # requests[i]

C13_Witness ==
  /\ Returned_
  /\ tool = "create_campaign"
  /\ Len(requests) = 1
  /\ requests[1].service = "CampaignBudgetService"
  /\ answers = <<[kind |-> "error", errors |-> <<"m1", "m2">>]>>
  /\ result = FormatError(answers[1])

KeywordTools == {"add_keywords", "add_negative_keywords"}

MatchTypeNames == {EXACT_, PHRASE_, BROAD_}

\* the invocation passes the handler's test of match_type (add_keywords only)
MatchTypeAccepted ==
  tool = "add_negative_keywords"
    \/ \E n \in MatchTypeNames : SpellsIgnoringCase(args.match_type, n)

\* the items between the commas of a text of three items, trimmed
ThreeItems == <<"a", ",", " ", "b", " ", ",", "c">>

\* one mutation request, one create operation per keyword in input order, sent
\* once whether the stub applied it or raised
OneBatch ==
  /\ Len(requests) = 1
  /\ requests[1].kind = "mutate"
  /\ \A j \in 1..Len(Operations) : Operations[j].op = "create"
  /\ [j \in 1..Len(Operations) |-> Operations[j].fields.keyword_text]
       = ParseList(args.keywords, ",")
  /\ args.keywords = ThreeItems =>
       [j \in 1..Len(Operations) |-> Operations[j].fields.keyword_text]
         = <<<<"a">>, <<"b">>, <<"c">>>>
  /\ result.class = (IF answers[1].kind = "error" THEN "platform_error" ELSE "ok")

\* C14 as stated: add_keywords and add_negative_keywords issue exactly one mutation
\* request per invocation, holding one create operation per parsed keyword in
\* input order; the items are never split over several requests and no subset is
\* sent again after a failure.
C14_OneBatchEveryInvocation ==
  (Returned_ /\ tool \in KeywordTools) => OneBatch

\* C14 as amended: the same for every invocation whose match_type is accepted; an
\* add_keywords invocation whose match_type is not EXACT, PHRASE or BROAD issues no
\* request at all.
C14_OneBatch ==
  (Returned_ /\ tool \in KeywordTools) =>
    IF MatchTypeAccepted THEN OneBatch
    ELSE requests = <<>> /\ result.class = "invalid"

C14_Witness ==
  /\ Returned_
  /\ tool = "add_keywords"
  /\ args.keywords = ThreeItems
  /\ Len(requests) = 1
  /\ Len(requests[1].operations) = 3
  /\ answers[1].kind = "error"
  /\ result.class = "platform_error"

ListAndReportTools ==
  {"list_campaigns", "get_campaign", "list_ads", "list_keywords",
   "get_keyword_performance", "get_campaign_performance", "get_ad_group_performance",
   "get_search_terms_report", "get_geo_performance"}

\* the rows the stub returned to the invocation's query
ReturnedRows == answers[1].rows

\* the stub returned at least one row to a list or report tool
RowsReturned ==
  /\ Returned_
  /\ tool \in ListAndReportTools
  /\ answers # <<>>
  /\ answers[1].kind = "rows"
  /\ answers[1].rows # <<>>

\* the row blocks of the returned text: in get_campaign_performance they follow the
\* summary block
RowBlocks ==
  IF tool = "get_campaign_performance" THEN Tail(result.text.blocks)
  ELSE result.text.blocks

\* the block shows the row: its identity and the counts it carries
RenderedFrom(block, row) ==
  /\ block.row = row.id
  /\ \A f \in DOMAIN block \cap {"impressions", "clicks", "conversions"} :
       block[f] = row[f]

\* exactly one block per returned row, the i-th from the i-th row
OneBlockPerRow ==
  /\ result.class = "ok"
  /\ Len(RowBlocks) = Len(ReturnedRows)
  /\ \A i \in 1..Len(ReturnedRows) : RenderedFrom(RowBlocks[i], ReturnedRows[i])

\* C15 as stated: for every list and report tool, when the stub returns the rows
\* r1..rn (n >= 1) the returned text holds exactly n row blocks, the i-th rendered
\* from ri: no row dropped, duplicated or re-ordered.
C15_OneBlockPerRowEveryTool ==
  RowsReturned => OneBlockPerRow

\* C15 as amended: the same for every list and report tool but get_campaign, which
\* renders one block, from the first row returned, whatever the number of rows.
C15_OneBlockPerRow ==
  RowsReturned =>
    IF tool = "get_campaign"
    THEN /\ result.class = "ok"
         /\ Len(RowBlocks) = 1
         /\ RenderedFrom(RowBlocks[1], ReturnedRows[1])
    ELSE OneBlockPerRow

C15_Witness ==
  /\ RowsReturned
  /\ tool = "get_search_terms_report"
  /\ Len(ReturnedRows) = 2
  /\ ReturnedRows[1].id = 3
  /\ ReturnedRows[2].id = 1
  /\ Len(RowBlocks) = 2
  /\ RowBlocks[1].row = 3
  /\ RowBlocks[2].row = 1

\* the sum of a field over the rows
RECURSIVE TotalOf(_, _)
TotalOf(rows, f) ==
  IF rows = <<>> THEN 0 ELSE Head(rows)[f] + TotalOf(Tail(rows), f)

Distance(x, y) == IF x >= y THEN x - y ELSE y - x

C16_WitnessNoImpressions ==
  /\ RowsReturned
  /\ tool = "get_campaign_performance"
  /\ TotalOf(ReturnedRows, "impressions") = 0
  /\ result.text.blocks[1].overall_ctr = 0

TermReports == {"get_search_terms_report", "get_keyword_performance"}

CappedReports == TermReports \cup {"get_geo_performance"}

\* the documented cap of a report
CapOf(name) == IF name \in TermReports THEN 50 ELSE 20

\* the query sent ends in LIMIT n
LimitSent(n) ==
  /\ requests # <<>>
  /\ requests[1].kind = "search"
  /\ requests[1].query[Len(requests[1].query)] = Limit(n)

\* a capped report returned
CappedReportReturned == Returned_ /\ tool \in CappedReports

\* the number of row blocks of the returned text
BlocksReturned == IF result.class = "ok" THEN Len(result.text.blocks) ELSE 0

\* the number of rows the stub returned
RowsAnswered == IF answers[1].kind = "rows" THEN Len(answers[1].rows) ELSE 0

NamesOf(tools) == {tools[i] : i \in DOMAIN tools}

\* the tools the four modules export
ExportedTools ==
  NamesOf(campaigns_get_tools) \cup NamesOf(reporting_get_tools)
    \cup NamesOf(keywords_get_tools) \cup NamesOf(ads_get_tools)

\* the number of tools the four modules export, a name counted every time it occurs
ExportedCount ==
  Len(campaigns_get_tools) + Len(reporting_get_tools)
    + Len(keywords_get_tools) + Len(ads_get_tools)

\* C18: the registry holds exactly the tools of get_tools() of the campaigns,
\* reporting, keywords and ads modules, 17 tools each under its own name, whatever
\* invocations have happened; invoking a name outside it fails with UnknownTool
\* without running a handler or issuing a platform call.
C18_ClosedRegistry ==
  /\ registry = ExportedTools
  /\ ExportedCount = 17
  /\ Cardinality(registry) = 17
  /\ phase = "returned" =>
       IF tool \in registry THEN result.class # "unknown_tool"
       ELSE /\ result = Returned("unknown_tool", [name |-> tool])
            /\ requests = <<>>
            /\ answers = <<>>

C18_Witness ==
  /\ phase = "returned"
  /\ tool = "List_Campaigns"
  /\ "list_campaigns" \in registry
  /\ result.class = "unknown_tool"
  /\ requests = <<>>

\* no credential file in any of the three places
NoCredentialBundle ==
  \A i \in 1..Len(config_files) :
    config_files[i].path = "" \/ ~config_files[i].exists

\* C19: when no credential bundle is available (no file in any of the three places
\* load_google_ads_config looks in), every invocation of every tool fails with the
\* configuration error, and no query or mutation is issued.
C19_NoBundleNoCall ==
  (phase = "returned" /\ tool \in registry /\ NoCredentialBundle) =>
    /\ result = Raised("FileNotFoundError")
    /\ requests = <<>>

C19_Witness ==
  /\ phase = "returned"
  /\ tool = "create_campaign"
  /\ NoCredentialBundle
  /\ config_files[1] = EnvUnset
  /\ result = Raised("FileNotFoundError")
  /\ requests = <<>>

\* the exceptions of the error taxonomy that leave a handler as exceptions: the
\* missing configuration
TaxonomyExceptions == {"FileNotFoundError"}

\* C20: every invocation of a registered tool ends with one outcome that is the
\* tool's result text or an error of the taxonomy; no other exception leaves a
\* handler, neither for a date_range with two or more commas nor for a platform
\* response with an empty results list.
C20_NoOtherException ==
  (phase = "returned" /\ tool \in registry /\ result.class = "exception") =>
    result.text.exception \in TaxonomyExceptions

\* a date_range of three parts makes the unpacking of split(",") raise ValueError
C20_DateRangeOfThreeParts ==
  ~(/\ Returned_
    /\ tool = "get_campaign_performance"
    /\ result = Raised("ValueError"))

\* a mutate response without results makes results[0] raise IndexError
C20_EmptyResults ==
  ~(/\ Returned_
    /\ tool = "create_campaign"
    /\ answers # <<>>
    /\ answers[Len(answers)].kind = "results"
    /\ answers[Len(answers)].results = <<>>
    /\ result = Raised("IndexError"))

\* the resource paths composed for an operation
PathsOf(operation) ==
  {operation.fields[f] : f \in DOMAIN operation.fields \cap {"campaign", "ad_group"}}
    \cup (IF operation.op = "update" /\ operation.type # "CampaignBudget"
          THEN {operation.fields.resource_name} ELSE {})

\* every request of the invocation, and every path composed for it, carries id
AccountIdIs(id) ==
  /\ \A i \in 1..Len(requests) : requests[i].customer_id = id
  /\ \A i \in 1..Len(OperationsOf(requests)) :
       \A path \in PathsOf(OperationsOf(requests)[i]) : path.customer_id = id

\* C21: every platform request issued during an invocation, and every resource path
\* composed for it, carries the caller's customer_id with all dashes removed:
\* "123-456-7890" reaches the platform as "1234567890".
C21_AccountIdStripped ==
  (Returned_ /\ requests # <<>>) => AccountIdIs(RemoveDashes(args.customer_id))

\* what the handlers do: the customer_id is copied as it was given
C21_AccountIdCopied ==
  (Returned_ /\ requests # <<>>) => AccountIdIs(args.customer_id)

StatusFilterTools == {"list_campaigns", "list_ads", "list_keywords"}

StatusFields == {"campaign.status", "ad_group_ad.status", "ad_group_criterion.status"}

\* the status predicates of the queries sent
StatusPredicates ==
  UNION {{requests[i].query[j] : j \in {k \in 1..Len(requests[i].query) :
                                          requests[i].query[k].lhs \in StatusFields}} :
         i \in {k \in 1..Len(requests) : requests[k].kind = "search"}}

\* C22: in list_campaigns, list_ads and list_keywords a supplied (non-empty)
\* status_filter that is not one of ENABLED, PAUSED, REMOVED fails with InvalidArguments and no query
\* is sent; a status predicate placed in a query always names one of those three
\* values in uppercase.
C22_StatusFilterValidated ==
  (Returned_ /\ tool \in StatusFilterTools) =>
    /\ (Truthy(args.status_filter) /\ args.status_filter[1] \notin StatusMapKeys)
         => (result.class = "invalid" /\ requests = <<>>)
    /\ \A p \in StatusPredicates : \E k \in StatusMapKeys : p.rhs = Quote(k)

\* a status_filter that is not of the set reaches the query as it was given
C22_FilterSentAsGiven ==
  ~(/\ Returned_
    /\ tool = "list_keywords"
    /\ args.status_filter = Some(<<"p","a","u","s","e","d">>)
    /\ \E p \in StatusPredicates : p.rhs = Quote(<<"p","a","u","s","e","d">>))

\* the words that start a predicate in the query language
Connectives == {"WHERE", "AND", "OR"}

\* the number of predicates the platform reads in a query text: the connectives
\* outside string literals, a quote opening or closing a literal
RECURSIVE PredicatesRead(_, _)
PredicatesRead(text, quoted) ==
  IF text = <<>> THEN 0
  ELSE IF Head(text) = "'" THEN PredicatesRead(Tail(text), ~quoted)
  ELSE (IF ~quoted /\ Head(text) \in Connectives THEN 1 ELSE 0)
         + PredicatesRead(Tail(text), quoted)

\* the number of predicates the tool put in the query
PredicatesBuilt(query) ==
  Cardinality({j \in 1..Len(query) : query[j].kw \in {"WHERE", "AND"}})

\* the queries sent by the invocation
QueriesSent ==
  {requests[i].query : i \in {k \in 1..Len(requests) : requests[k].kind = "search"}}

\* C23: no caller-supplied value (campaign_id, ad_group_id, status_filter,
\* date_range, min_impressions) changes the structure of a built query: the text
\* sent has the predicates the tool builds for the filters present and no other; a
\* value such as campaign_id = "1 OR campaign.id > 0" never adds a predicate.
C23_ValuesAddNoPredicate ==
  Returned_ =>
    \A query \in QueriesSent :
      PredicatesRead(QueryText(query), FALSE) = PredicatesBuilt(query)

\* the campaign_id "1 OR campaign.id > 0" makes a query of two predicates
C23_PredicateAdded ==
  ~(/\ Returned_
    /\ tool = "get_campaign"
    /\ args.campaign_id = <<"1", " ", "OR", " ", "campaign.id", " ", ">", " ", "0">>
    /\ \E query \in QueriesSent :
         /\ PredicatesBuilt(query) = 1
         /\ PredicatesRead(QueryText(query), FALSE) = 2)

\* the place of a keyword in SELECT .. FROM .. WHERE .. AND .. ORDER BY .. LIMIT ..
KeywordRank(kw) ==
  CASE kw = "SELECT" -> 1
    [] kw = "FROM" -> 2
    [] kw = "WHERE" -> 3
    [] kw = "AND" -> 4
    [] kw = "ORDER BY" -> 5
    [] kw = "LIMIT" -> 6
    [] OTHER -> 0

\* the clauses of the query that start with kw
ClausesOf(query, kw) == {j \in 1..Len(query) : query[j].kw = kw}

\* SELECT fields FROM source [WHERE p1 AND ... AND pk] [ORDER BY f] [LIMIT n]
WellShaped(query) ==
  /\ Len(query) >= 2
  /\ query[1].kw = "SELECT"
  /\ query[2].kw = "FROM"
  /\ \A j \in 1..Len(query) : KeywordRank(query[j].kw) # 0
  /\ \A j \in 1..(Len(query) - 1) :
       \/ KeywordRank(query[j].kw) < KeywordRank(query[j + 1].kw)
       \/ query[j].kw = "AND" /\ query[j + 1].kw = "AND"
  /\ Cardinality(ClausesOf(query, "WHERE")) <= 1
  /\ ClausesOf(query, "AND") # {} => ClausesOf(query, "WHERE") # {}

\* C24: for every query tool and every combination of present and absent optional
\* filters the built query has the shape SELECT fields FROM source [WHERE p1 AND
\* ... AND pk] [ORDER BY f] [LIMIT n]: at most one WHERE, present whenever there is
\* a predicate, all predicates joined by AND, every predicate before ORDER BY and
\* ORDER BY before LIMIT.
C24_QueryShape ==
  Returned_ => \A query \in QueriesSent : WellShaped(query)

C24_Witness ==
  /\ Returned_
  /\ tool = "get_campaign_performance"
  /\ Truthy(args.campaign_id)
  /\ Contains(args.date_range, ",")
  /\ \E query \in QueriesSent :
       /\ Cardinality(ClausesOf(query, "WHERE")) = 1
       /\ Cardinality(ClausesOf(query, "AND")) = 3
       /\ query[Len(query)].kw = "ORDER BY"

C24_WitnessNoPredicate ==
  /\ Returned_
  /\ tool = "list_campaigns"
  /\ ~Truthy(args.status_filter)
  /\ \E query \in QueriesSent : Len(query) = 3 /\ ClausesOf(query, "WHERE") = {}

\* the invocation of slot p has returned and the invocation served alone had the
\* same arguments and got the same answers from the stub
SameAlone(p) ==
  /\ calls[p].pc = "done"
  /\ phase = "returned"
  /\ tool = "create_campaign"
  /\ answers = calls[p].answers
  /\ args = calls[p].args \/ get_google_ads_client(config_files) = <<>>

\* C25: invocations are independent: whatever the interleaving of the concurrently
\* served invocations, each issues the platform requests and returns the text it
\* issues and returns when it runs alone against the same stub answers; the
\* registry is shared and only read.
C25_Independent ==
  /\ registry = MountedTools
  /\ \A p \in Slots :
       SameAlone(p) => (calls[p].requests = requests /\ calls[p].result = result)

\* two invocations interleaved between their two mutations, with different budgets
C25_Witness ==
  /\ SameAlone(1)
  /\ calls[2].pc = "done"
  /\ calls[1].overlapped
  /\ Len(calls[1].requests) = 2
  /\ Len(calls[2].requests) = 2
  /\ calls[1].budget_resource = <<"res/1">>
  /\ calls[2].budget_resource = <<"res/2">>
  /\ calls[1].result.class = "ok"
  /\ calls[1].requests = requests

CreateCampaignReturned == Returned_ /\ tool = "create_campaign"

\* the request creates one entity of the type through the service
Creates(request, service, type) ==
  /\ request.kind = "mutate"
  /\ request.service = service
  /\ Len(request.operations) = 1
  /\ request.operations[1].op = "create"
  /\ request.operations[1].type = type

\* the stub answered the i-th request with at least one result
Succeeded(i) ==
  /\ Len(answers) >= i
  /\ answers[i].kind = "results"
  /\ answers[i].results # <<>>

\* C26: create_campaign sends the budget creation first; the campaign creation is
\* sent only after the budget creation returned successfully and references the
\* resource name returned by that budget response; when the budget creation raises
\* a platform exception the campaign creation is never sent.
C26_BudgetThenCampaign ==
  CreateCampaignReturned =>
    /\ Len(requests) \in {1, 2}
    /\ Creates(requests[1], "CampaignBudgetService", "CampaignBudget")
    /\ Len(requests) = 2 <=> Succeeded(1)
    /\ Len(requests) = 2 =>
         /\ Creates(requests[2], "CampaignService", "Campaign")
         /\ requests[2].operations[1].fields.campaign_budget = answers[1].results[1]
    /\ answers[1].kind = "error" => Len(requests) = 1

C26_Witness ==
  /\ CreateCampaignReturned
  /\ Len(requests) = 2
  /\ answers[1].results = <<"res/1", "res/2">>
  /\ requests[2].operations[1].fields.campaign_budget = "res/1"
  /\ result.class = "ok"

C26_WitnessBudgetRaised ==
  /\ CreateCampaignReturned
  /\ answers[1].kind = "error"
  /\ Len(requests) = 1
  /\ result.class = "platform_error"

\* the invocation ended with an error
EndedWithError == result.class \in {"platform_error", "exception"}

\* the requests that changed platform state: the mutations the stub answered with
\* a result
StateChanging ==
  {i \in 1..Len(requests) : requests[i].kind = "mutate" /\ Succeeded(i)}

\* the budget was created and the campaign creation raised a platform exception
CampaignRaisedAfterBudget ==
  /\ tool = "create_campaign"
  /\ Len(requests) = 2
  /\ Succeeded(1)
  /\ answers[2].kind = "error"

\* C27: create_campaign is not atomic: when the budget creation succeeds and the
\* campaign creation raises a platform exception, the invocation returns the
\* platform-error block and issues no compensating request; and this is the only
\* way an invocation ends with an error after having changed platform state.
C27_OnlyPartialFailure ==
  Returned_ =>
    /\ CampaignRaisedAfterBudget =>
         (result = FormatError(answers[2]) /\ StateChanging = {1})
    /\ (EndedWithError /\ StateChanging # {}) => CampaignRaisedAfterBudget

\* the first half alone: the error block and no request after the failed one
C27_NoCompensation ==
  (Returned_ /\ CampaignRaisedAfterBudget) =>
    (result = FormatError(answers[2]) /\ StateChanging = {1})

\* the budget is created, the campaign response has no results: IndexError
C27_OrphanBudgetWithoutPlatformError ==
  ~(/\ Returned_
    /\ tool = "create_campaign"
    /\ StateChanging = {1}
    /\ answers[2].kind = "results"
    /\ result = Raised("IndexError"))

UpdateBudgetReturned == Returned_ /\ tool = "update_campaign_budget"

\* the lookup returned a first row that refers to a budget
BudgetFound ==
  /\ answers[1].kind = "rows"
  /\ answers[1].rows # <<>>
  /\ answers[1].rows[1].campaign_budget # <<>>

\* C28: update_campaign_budget issues the lookup query before any mutation; when
\* the lookup returns no row, or a first row with an empty budget reference, no
\* mutation is sent and the result is the not-found text; otherwise exactly one
\* budget update is sent, targeting the budget resource of the first returned row
\* and no other resource, with the new amount converted to micros.
C28_LookupThenUpdate ==
  UpdateBudgetReturned =>
    /\ Len(requests) \in {1, 2}
    /\ requests[1].kind = "search"
    /\ requests[1].query = BudgetQuery(args.campaign_id)
    /\ (answers[1].kind = "rows" /\ ~BudgetFound) =>
         /\ Len(requests) = 1
         /\ result = Returned("not_found", [what |-> "campaign", id |-> args.campaign_id])
    /\ answers[1].kind = "error" => Len(requests) = 1
    /\ BudgetFound =>
         /\ Len(requests) = 2
         /\ requests[2].kind = "mutate"
         /\ requests[2].service = "CampaignBudgetService"
         /\ Len(requests[2].operations) = 1
         /\ requests[2].operations[1].op = "update"
         /\ requests[2].operations[1].type = "CampaignBudget"
         /\ requests[2].operations[1].fields.resource_name
              = answers[1].rows[1].campaign_budget
         /\ requests[2].operations[1].fields.amount_micros
              = DollarsToMicros(args.new_daily_budget_dollars)

C28_Witness ==
  /\ UpdateBudgetReturned
  /\ Len(answers[1].rows) = 2
  /\ answers[1].rows[1].id = 3
  /\ answers[1].rows[2].id = 1
  /\ requests[2].operations[1].fields.resource_name = <<"customers/1/campaignBudgets/9">>
  /\ requests[2].operations[1].fields.amount_micros = 50000000
  /\ result.class = "ok"

C28_WitnessEmptyReference ==
  /\ UpdateBudgetReturned
  /\ Len(answers[1].rows) = 2
  /\ answers[1].rows[1].id = 2
  /\ answers[1].rows[2].id = 1
  /\ Len(requests) = 1
  /\ result.class = "not_found"

\* the channel of the campaign creation sent
ChannelSent == requests[2].operations[1].fields.advertising_channel_type

\* the channels whose name the text is, whatever the case of its letters
ChannelsNamed(text) ==
  {k \in ChannelMapKeys :
     /\ Len(text) = Len(k)
     /\ \A i \in 1..Len(k) : text[i] \in {k[i], LowerChunk(k[i])}}

\* C29: create_campaign maps channel_type onto SEARCH, DISPLAY, DISCOVERY whatever
\* the case of its letters; a channel_type outside that set is never an error: the
\* campaign is created with channel SEARCH, and the confirmation text reports the
\* caller's channel_type as given, so the reported channel can differ from the one
\* sent.
C29_ChannelFallback ==
  CreateCampaignReturned =>
    /\ result.class # "invalid"
    /\ Len(requests) = 2 =>
         /\ ChannelSent \in ChannelMapKeys
         /\ \A k \in ChannelsNamed(args.channel_type) : ChannelSent = k
         /\ ChannelsNamed(args.channel_type) = {} => ChannelSent = SEARCH_
    /\ result.class = "ok" => result.text.channel = args.channel_type

C29_Witness ==
  /\ CreateCampaignReturned
  /\ args.channel_type = <<"V","I","D","E","O">>
  /\ Len(requests) = 2
  /\ ChannelSent = SEARCH_
  /\ result.class = "ok"
  /\ result.text.channel = <<"V","I","D","E","O">>

C29_WitnessCase ==
  /\ CreateCampaignReturned
  /\ args.channel_type = <<"D","i","s","p","l","a","y">>
  /\ Len(requests) = 2
  /\ ChannelSent = DISPLAY_

\* the create operations that carry a bid
WithBid == {j \in 1..Len(Operations) : "cpc_bid_micros" \in DOMAIN Operations[j].fields}

\* a bid was supplied and is not zero
BidGiven == args.cpc_bid_dollars # None /\ args.cpc_bid_dollars[1].n # 0

\* C30: in add_keywords the bid is set on every create operation of the batch or on
\* none: it is set, to the supplied dollars converted to micros, exactly when
\* cpc_bid_dollars is supplied and not zero, so a bid of 0 is treated as an omitted
\* one and is not sent; create_ad_group always sends a bid, 2,000,000 micros when
\* the caller omits it.
C30_BidOnAllOrNone ==
  /\ (Returned_ /\ tool = "add_keywords" /\ requests # <<>>) =>
       /\ WithBid = (IF BidGiven THEN 1..Len(Operations) ELSE {})
       /\ \A j \in WithBid :
            Operations[j].fields.cpc_bid_micros
              = DollarsToMicros(args.cpc_bid_dollars[1])
  /\ (Returned_ /\ tool = "create_ad_group") =>
       /\ Len(Operations) = 1
       /\ WithBid = {1}
       /\ args.cpc_bid_dollars = None => Operations[1].fields.cpc_bid_micros = 2000000

C30_Witness ==
  /\ Returned_
  /\ tool = "add_keywords"
  /\ args.keywords = ThreeItems
  /\ args.cpc_bid_dollars = Some(Dollars(FALSE, 0, 0))
  /\ Len(Operations) = 3
  /\ WithBid = {}

C30_WitnessBidSet ==
  /\ Returned_
  /\ tool = "add_keywords"
  /\ args.keywords = ThreeItems
  /\ args.cpc_bid_dollars = Some(Dollars(FALSE, 201, 2))
  /\ WithBid = {1, 2, 3}
  /\ Operations[3].fields.cpc_bid_micros = 2009999

C30_WitnessDefaultBid ==
  /\ Returned_
  /\ tool = "create_ad_group"
  /\ args.cpc_bid_dollars = None
  /\ Operations[1].fields.cpc_bid_micros = 2000000

=============================================================================
